---- MODULE Spec2Model ----
(***************************************************************************)
(* A model of the declarative executable-launch pipeline of nwp_pyutils    *)
(* (execute/executable_interface.py) and of the helpers it calls           *)
(* (tools/parser_interface.py, tools/system_interface.py).                 *)
(*                                                                         *)
(* Python values are tagged records so that None, str, int and bool stay   *)
(* distinct: an environment value "0" is a str and never equals the int 0. *)
(***************************************************************************)
EXTENDS Integers, Sequences, FiniteSets, TLC

\* ------------------------------------------------------------------------
\* Bounds of the model.

\* Longest task_keys list the builder hands to the pipeline.
MaxTaskKeys == 2

\* ------------------------------------------------------------------------
\* Python values.

None == [t |-> "none"]

PyStr(s) == [t |-> "str", v |-> s]

PyInt(i) == [t |-> "int", v |-> i]

PyBool(b) == [t |-> "bool", v |-> b]

\* Python truth value testing (bool(x)).
Truthy(x) ==
  CASE x.t = "none" -> FALSE
    [] x.t = "bool" -> x.v
    [] x.t = "int"  -> x.v # 0
    [] x.t = "str"  -> x.v # ""

\* Python ==  between the values above: values of different types are
\* unequal (a str never equals an int).
PyEq(a, b) ==
  IF a.t # b.t THEN FALSE
  ELSE IF a.t = "none" THEN TRUE
  ELSE a.v = b.v

\* f-string rendering, f"{x}".
Format(x) ==
  CASE x.t = "none" -> "None"
    [] x.t = "str"  -> x.v
    [] x.t = "int"  -> ToString(x.v)
    [] x.t = "bool" -> IF x.v THEN "True" ELSE "False"

\* ------------------------------------------------------------------------
\* Strings.

LowerLetters ==
  <<"a","b","c","d","e","f","g","h","i","j","k","l","m",
    "n","o","p","q","r","s","t","u","v","w","x","y","z">>

UpperLetters ==
  <<"A","B","C","D","E","F","G","H","I","J","K","L","M",
    "N","O","P","Q","R","S","T","U","V","W","X","Y","Z">>

\* One character mapped through the table `from` -> `to`.
MapChar(c, from, to) ==
  IF \E i \in 1..Len(from) : from[i] = c
  THEN to[CHOOSE i \in 1..Len(from) : from[i] = c]
  ELSE c

RECURSIVE MapStr(_, _, _)
MapStr(s, from, to) ==
  IF Len(s) = 0 THEN ""
  ELSE MapChar(SubSeq(s, 1, 1), from, to) \o MapStr(SubSeq(s, 2, Len(s)), from, to)

\* str.lower() and str.upper().
str_lower(s) == MapStr(s, UpperLetters, LowerLetters)

str_upper(s) == MapStr(s, LowerLetters, UpperLetters)

\* Python `needle in hay` for strings.
Contains(hay, needle) ==
  \E i \in 1..(Len(hay) - Len(needle) + 1) :
     SubSeq(hay, i, i + Len(needle) - 1) = needle

\* os.path.join(a, b) for two components.
path_join(a, b) ==
  IF Len(b) > 0 /\ SubSeq(b, 1, 1) = "/" THEN b
  ELSE IF Len(a) = 0 \/ SubSeq(a, Len(a), Len(a)) = "/" THEN a \o b
  ELSE a \o "/" \o b

\* ------------------------------------------------------------------------
\* Exceptions.

NoErr == [type |-> "none", msg |-> ""]

Exc(type, msg) == [type |-> type, msg |-> msg]

\* The result of a call: the (possibly mutated) object and the exception
\* it raised, if any.
Ret(obj, e) == [obj |-> obj, err |-> e]

\* ------------------------------------------------------------------------
\* tools/parser_interface.py and tools/system_interface.py.

\* os.environ is a mapping from the names of the bound variables to their
\* (string) values; enviro_get returns the string, or None when unbound.
enviro_get(environ, envvar) ==
  IF envvar \in DOMAIN environ THEN PyStr(environ[envvar]) ELSE None

\* object_getattr(object_in, key="img_path", force=True): an attribute the
\* builder did not supply reads as None.
object_getattr_img_path(obj) == obj.img_path

\* app_path(app).  `lookup` is what the host answers to the query
\* ["command", "-V", app]: whether a program called `command` could be
\* started at all, and the words it printed on standard output.
app_path(app, lookup) ==
  IF ~lookup.command
  THEN [val |-> None,
        err |-> Exc("FileNotFoundError",
                    "[Errno 2] No such file or directory: 'command'")]
  ELSE IF Len(lookup.out) > 0
  THEN [val |-> PyStr(lookup.out[3]), err |-> NoErr]
  ELSE [val |-> None, err |-> NoErr]

\* ------------------------------------------------------------------------
\* execute/executable_interface.py: the Launch Planner.

\* The local variable `ntasks` of __check_exectype__ before any assignment.
Unbound == [t |-> "unbound"]

\* The message of the UnboundLocalError raised by a read of `ntasks` before
\* any assignment (the wording of Python 3.11 and later).
UnboundNtasksMsg ==
  "cannot access local variable 'ntasks' where it is not associated with "
  \o "a value"

\* The loop without its `break`: the last bound entry wins.
RECURSIVE probe_task_keys_nobreak(_, _)
probe_task_keys_nobreak(task_keys, environ) ==
  IF task_keys = <<>> THEN Unbound
  ELSE LET value == enviro_get(environ, task_keys[Len(task_keys)])
       IN IF value # None THEN value
          ELSE probe_task_keys_nobreak(SubSeq(task_keys, 1, Len(task_keys) - 1),
                                       environ)

\* The loop over task_keys: the value of the first entry that enviro_get
\* finds bound, or no assignment at all.
RECURSIVE probe_task_keys(_, _)
probe_task_keys(task_keys, environ) ==
  IF task_keys = <<>> THEN Unbound
  ELSE LET value == enviro_get(environ, Head(task_keys))
       IN IF value # None THEN value
          ELSE probe_task_keys(Tail(task_keys), environ)

ZeroTasksMsg ==
  "For parallel/multi-processor applications, the total "
  \o "number of available tasks must be non-zero. Aborting!!!"

\* Task-type resolution without the default `serial = True`.
check_exectype_nodefault(obj, environ) ==
  LET probe == IF Truthy(obj.multi)
               THEN probe_task_keys(obj.task_keys, environ)
               ELSE Unbound
  IN IF Truthy(obj.multi) /\ probe = Unbound
     THEN Ret(obj, Exc("UnboundLocalError",
                       UnboundNtasksMsg))
     ELSE IF Truthy(obj.multi) /\ PyEq(probe, PyInt(0))
     THEN Ret(obj, Exc("ExecutableInterfaceError", ZeroTasksMsg))
     ELSE IF ~Truthy(obj.serial) /\ probe = Unbound
     THEN Ret(obj, Exc("UnboundLocalError",
                       UnboundNtasksMsg))
     ELSE LET ntasks == IF Truthy(obj.serial) THEN PyInt(1) ELSE probe
          IN Ret([obj EXCEPT !.ntasks = ntasks], NoErr)

__check_exectype__(obj, environ) ==
  LET o1 == IF ~(Truthy(obj.multi) \/ Truthy(obj.serial))
            THEN [obj EXCEPT !.serial = PyBool(TRUE)]
            ELSE obj
      probe == IF Truthy(o1.multi)
               THEN probe_task_keys(o1.task_keys, environ)
               ELSE Unbound
  IN IF Truthy(o1.multi) /\ probe = Unbound
     THEN Ret(o1, Exc("UnboundLocalError",
                      UnboundNtasksMsg))
     ELSE IF Truthy(o1.multi) /\ PyEq(probe, PyInt(0))
     THEN Ret(o1, Exc("ExecutableInterfaceError", ZeroTasksMsg))
     ELSE LET ntasks == IF Truthy(o1.serial) THEN PyInt(1) ELSE probe
          IN Ret([o1 EXCEPT !.ntasks = ntasks], NoErr)

\* fileio_interface.fileexist(path): fs is the set of paths that exist.
fileexist(fs, path) == path \in fs

\* Container resolution without the test that the image exists.
check_sifimg_noexist(obj, fs, lookup, inspect_ok) ==
  LET simgexec == app_path("singularity", lookup)
  IN IF simgexec.err # NoErr THEN Ret(obj, simgexec.err)
     ELSE IF simgexec.val = None
     THEN Ret(obj, Exc("TypeError",
            "expected str, bytes or os.PathLike object, not NoneType"))
     ELSE Ret([obj EXCEPT !.container = PyBool(inspect_ok)], NoErr)

\* __check_sifimg__: `lookup` is the host's answer to the query for the
\* `singularity` tool and inspect_ok the outcome of `singularity inspect`.
__check_sifimg__(obj, fs, lookup, inspect_ok) ==
  IF ~fileexist(fs, obj.img_path.v)
  THEN Ret(obj, Exc("ExecutableInterfaceError",
                    "The Singularity container path " \o Format(obj.img_path)
                    \o " does not exist. Aborting!!!"))
  ELSE LET simgexec == app_path("singularity", lookup)
       IN IF simgexec.err # NoErr THEN Ret(obj, simgexec.err)
          ELSE IF simgexec.val = None
          THEN Ret(obj, Exc("TypeError",
                 "expected str, bytes or os.PathLike object, not NoneType"))
          ELSE Ret([obj EXCEPT !.container = PyBool(inspect_ok)], NoErr)

\* The names of the signals 1..31 (signal.Signals on Linux).
SignalNames ==
  <<"SIGHUP", "SIGINT", "SIGQUIT", "SIGILL", "SIGTRAP", "SIGABRT", "SIGBUS",
    "SIGFPE", "SIGKILL", "SIGUSR1", "SIGSEGV", "SIGUSR2", "SIGPIPE",
    "SIGALRM", "SIGTERM", "SIGSTKFLT", "SIGCHLD", "SIGCONT", "SIGSTOP",
    "SIGTSTP", "SIGTTIN", "SIGTTOU", "SIGURG", "SIGXCPU", "SIGXFSZ",
    "SIGVTALRM", "SIGPROF", "SIGWINCH", "SIGIO", "SIGPWR", "SIGSYS">>

\* repr(signal.Signals(n)), or the words for a number that names no signal.
signal_repr(n) ==
  IF n \in 1..Len(SignalNames)
  THEN "<Signals." \o SignalNames[n] \o ": " \o ToString(n) \o ">"
  ELSE IF n = 34 THEN "<Signals.SIGRTMIN: 34>"
  ELSE IF n = 64 THEN "<Signals.SIGRTMAX: 64>"
  ELSE "unknown signal " \o ToString(n)

\* str(CalledProcessError) for the inspection command [simgexec, "inspect",
\* "--quiet", img_path], a list of strings: returncode is the exit status
\* of the command, negative when a signal ended it.
CalledProcessErrorMsg(simgexec, img_path, returncode) ==
  "Command '['" \o simgexec \o "', 'inspect', '--quiet', '" \o img_path
  \o "']' "
  \o (IF returncode < 0
      THEN "died with " \o signal_repr(-returncode) \o "."
      ELSE "returned non-zero exit status " \o ToString(returncode) \o ".")

\* The info message __check_sifimg__ logs when the inspection fails.
InspectFailedMsg(obj, simgexec, returncode) ==
  "Singularity application check yielded the following message:"
  \o "\n\n"
  \o CalledProcessErrorMsg(Format(simgexec), Format(obj.img_path), returncode)
  \o "\n\n"
  \o "The Singularity container " \o Format(obj.img_path) \o " will "
  \o "not be used for the requested executable application "
  \o Format(obj.exec_path) \o "."

\* The number of `singularity inspect` subprocesses __check_sifimg__
\* starts: subprocess.run is reached once the image exists and app_path has
\* returned, and it starts a process only when given a program to start.
inspect_runs(obj, fs, lookup) ==
  IF object_getattr_img_path(obj) # None /\ fileexist(fs, obj.img_path.v)
  THEN LET simgexec == app_path("singularity", lookup)
       IN IF simgexec.err = NoErr /\ simgexec.val # None THEN 1 ELSE 0
  ELSE 0

\* Flag resolution keeping a flag that is already set.
get_nprocs_flag_keep(obj) ==
  IF obj.scheduler = None
  THEN Ret(obj, Exc("AttributeError",
                    "'NoneType' object has no attribute 'lower'"))
  ELSE IF obj.nprocs_flag # None THEN Ret(obj, NoErr)
  ELSE LET nprocs_flag ==
             IF str_lower(obj.scheduler.v) = "mpi"
             THEN IF Truthy(obj.multi) THEN PyStr("-np") ELSE None
             ELSE IF str_lower(obj.scheduler.v) = "slurm"
             THEN IF Truthy(obj.multi) THEN PyStr("-n") ELSE None
             ELSE None
       IN Ret([obj EXCEPT !.nprocs_flag = nprocs_flag], NoErr)

\* Flag resolution with the flags of the two schedulers exchanged.
get_nprocs_flag_swapped(obj) ==
  IF obj.scheduler = None
  THEN Ret(obj, Exc("AttributeError",
                    "'NoneType' object has no attribute 'lower'"))
  ELSE LET nprocs_flag ==
             IF str_lower(obj.scheduler.v) = "mpi"
             THEN IF Truthy(obj.multi) THEN PyStr("-n") ELSE None
             ELSE IF str_lower(obj.scheduler.v) = "slurm"
             THEN IF Truthy(obj.multi) THEN PyStr("-np") ELSE None
             ELSE None
       IN Ret([obj EXCEPT !.nprocs_flag = nprocs_flag], NoErr)

\* __get_nprocs_flag__: the flag by scheduler name, compared in lower case,
\* and only for a multi-task application.
__get_nprocs_flag__(obj) ==
  IF obj.scheduler = None
  THEN Ret(obj, Exc("AttributeError",
                    "'NoneType' object has no attribute 'lower'"))
  ELSE LET nprocs_flag ==
             IF str_lower(obj.scheduler.v) = "mpi"
             THEN IF Truthy(obj.multi) THEN PyStr("-np") ELSE None
             ELSE IF str_lower(obj.scheduler.v) = "slurm"
             THEN IF Truthy(obj.multi) THEN PyStr("-n") ELSE None
             ELSE None
       IN Ret([obj EXCEPT !.nprocs_flag = nprocs_flag], NoErr)

\* Command assembly choosing the launcher form whenever a launcher is
\* known.
get_cmd_launcher_form(obj) ==
  LET r == __get_nprocs_flag__(obj)
  IN IF r.err # NoErr THEN r
     ELSE LET cmd == IF r.obj.launcher = None
                     THEN <<Format(r.obj.exec_path)>>
                     ELSE <<Format(r.obj.launcher), Format(r.obj.nprocs_flag),
                            Format(r.obj.ntasks), Format(r.obj.exec_path)>>
          IN Ret([r.obj EXCEPT !.cmd = cmd], NoErr)

\* Command assembly extending the list already on the object.
get_cmd_append(obj) ==
  LET r == __get_nprocs_flag__(obj)
  IN IF r.err # NoErr THEN r
     ELSE LET cmd == IF r.obj.nprocs_flag = None
                     THEN <<Format(r.obj.exec_path)>>
                     ELSE <<Format(r.obj.launcher), Format(r.obj.nprocs_flag),
                            Format(r.obj.ntasks), Format(r.obj.exec_path)>>
          IN Ret([r.obj EXCEPT !.cmd = @ \o cmd], NoErr)

\* __get_cmd__: the flag, then the command list built anew.
__get_cmd__(obj) ==
  LET r == __get_nprocs_flag__(obj)
  IN IF r.err # NoErr THEN r
     ELSE LET cmd == IF r.obj.nprocs_flag = None
                     THEN <<Format(r.obj.exec_path)>>
                     ELSE <<Format(r.obj.launcher), Format(r.obj.nprocs_flag),
                            Format(r.obj.ntasks), Format(r.obj.exec_path)>>
          IN Ret([r.obj EXCEPT !.cmd = cmd], NoErr)

NoSchedulerMsg ==
  "The respective platform does not specify a scheduler; "
  \o "all compiled executables will be assumed serial."

\* Launcher resolution testing the scheduler before the launcher: an
\* unrecognized scheduler is fatal and a missing one resets the launcher,
\* also when a launcher was supplied.
launcher_resolve_sched_first(obj, lookup) ==
  IF obj.scheduler # None
  THEN IF str_lower(obj.scheduler.v) \in {"mpi", "slurm"}
       THEN IF obj.launcher # None
            THEN [obj |-> obj, err |-> NoErr, warn |-> <<>>]
            ELSE LET app == IF str_lower(obj.scheduler.v) = "mpi"
                            THEN "mpirun" ELSE "srun"
                     r == app_path(app, lookup)
                 IN IF r.err # NoErr
                    THEN [obj |-> obj, err |-> r.err, warn |-> <<>>]
                    ELSE [obj |-> [obj EXCEPT !.launcher = r.val],
                          err |-> NoErr, warn |-> <<>>]
       ELSE [obj |-> obj,
             err |-> Exc("ExecutableInterfaceError",
                         "The job scheduler type " \o str_upper(obj.scheduler.v)
                         \o " is not recognized. Aborting!!!"),
             warn |-> <<>>]
  ELSE [obj |-> [obj EXCEPT !.launcher = None], err |-> NoErr,
        warn |-> <<NoSchedulerMsg>>]

\* Launcher resolution reporting the scheduler name as supplied, without
\* upper().
launcher_resolve_literal(obj, lookup) ==
  IF obj.launcher # None THEN [obj |-> obj, err |-> NoErr, warn |-> <<>>]
  ELSE IF obj.scheduler # None
  THEN IF str_lower(obj.scheduler.v) \in {"mpi", "slurm"}
       THEN LET app == IF str_lower(obj.scheduler.v) = "mpi"
                       THEN "mpirun" ELSE "srun"
                r == app_path(app, lookup)
            IN IF r.err # NoErr
               THEN [obj |-> obj, err |-> r.err, warn |-> <<>>]
               ELSE [obj |-> [obj EXCEPT !.launcher = r.val],
                     err |-> NoErr, warn |-> <<>>]
       ELSE [obj |-> obj,
             err |-> Exc("ExecutableInterfaceError",
                         "The job scheduler type " \o obj.scheduler.v
                         \o " is not recognized. Aborting!!!"),
             warn |-> <<>>]
  ELSE [obj |-> [obj EXCEPT !.launcher = None], err |-> NoErr,
        warn |-> <<NoSchedulerMsg>>]

\* __launcher.  `lookup` is the host's answer to the query for the launcher
\* binary; warn is the warning the call logs, if any.
launcher_resolve(obj, lookup) ==
  IF obj.launcher # None THEN [obj |-> obj, err |-> NoErr, warn |-> <<>>]
  ELSE IF obj.scheduler # None
  THEN IF str_lower(obj.scheduler.v) \in {"mpi", "slurm"}
       THEN LET app == IF str_lower(obj.scheduler.v) = "mpi"
                       THEN "mpirun" ELSE "srun"
                r == app_path(app, lookup)
            IN IF r.err # NoErr
               THEN [obj |-> obj, err |-> r.err, warn |-> <<>>]
               ELSE [obj |-> [obj EXCEPT !.launcher = r.val],
                     err |-> NoErr, warn |-> <<>>]
       ELSE [obj |-> obj,
             err |-> Exc("ExecutableInterfaceError",
                         "The job scheduler type " \o str_upper(obj.scheduler.v)
                         \o " is not recognized. Aborting!!!"),
             warn |-> <<>>]
  ELSE [obj |-> [obj EXCEPT !.launcher = None], err |-> NoErr,
        warn |-> <<NoSchedulerMsg>>]

\* __schema: the schema path and the two ways of failing to obtain it
\* (the back quotes of the message are left out).
SchemaRelPath == "execute/schema/executable.schema.yaml"

\* Schema resolution attaching the path without testing that the file
\* exists.
schema_resolve_nocheck(obj, environ, fs) ==
  LET root == enviro_get(environ, "PYUTILS_ROOT")
  IN IF root = None
     THEN Ret(obj, Exc("ExecutableInterfaceError",
            "Defining the executable schema path failed with error "
            \o "expected str, bytes or os.PathLike object, not NoneType"
            \o "; please check that the environment variable "
            \o "PYUTILS_ROOT is defined within the run-time environment. "
            \o "Aborting!!!"))
     ELSE LET schema_path == path_join(root.v, SchemaRelPath)
          IN Ret([obj EXCEPT !.schema_path = PyStr(schema_path)], NoErr)

\* __schema: PYUTILS_ROOT is read, the path is joined and tested, and only
\* then attached.
schema_resolve(obj, environ, fs) ==
  LET root == enviro_get(environ, "PYUTILS_ROOT")
  IN IF root = None
     THEN Ret(obj, Exc("ExecutableInterfaceError",
            "Defining the executable schema path failed with error "
            \o "expected str, bytes or os.PathLike object, not NoneType"
            \o "; please check that the environment variable "
            \o "PYUTILS_ROOT is defined within the run-time environment. "
            \o "Aborting!!!"))
     ELSE LET schema_path == path_join(root.v, SchemaRelPath)
          IN IF ~fileexist(fs, schema_path)
             THEN Ret(obj, Exc("ExecutableInterfaceError",
                    "The YAML-formatted schema file path " \o schema_path
                    \o " does not exist. Aborting!!!"))
             ELSE Ret([obj EXCEPT !.schema_path = PyStr(schema_path)], NoErr)

\* utils/schema_interface.validate_schema: ok is whether the candidate
\* option set satisfies the schema; a validated option set is returned
\* with the supplied values kept.
validate_schema(obj, ok) ==
  IF ok THEN Ret(obj, NoErr)
  ELSE Ret(obj, Exc("SchemaInterfaceError", "schema validation failed"))

\* __validate: container resolution (only when img_path is set), task-type
\* resolution, then the strict schema validation.
validate_stage(obj, environ, fs, lookup, inspect_ok, schema_ok) ==
  LET r1 == IF object_getattr_img_path(obj) # None
            THEN __check_sifimg__(obj, fs, lookup, inspect_ok)
            ELSE Ret(obj, NoErr)
  IN IF r1.err # NoErr THEN r1
     ELSE LET r2 == __check_exectype__(r1.obj, environ)
          IN IF r2.err # NoErr THEN r2
             ELSE validate_schema(r2.obj, schema_ok)

\* ------------------------------------------------------------------------
\* execute/executable_interface.py: the Process Runner.

\* The defaults with the stdout default copied from the stderr one.
redirect_defaults_copied(obj) ==
  LET e == IF obj.stderr = None
           THEN PyStr(path_join(obj.run_path.v, "stderr.log")) ELSE obj.stderr
      o == IF obj.stdout = None
           THEN PyStr(path_join(obj.run_path.v, "stderr.log")) ELSE obj.stdout
      we == IF obj.stderr = None
            THEN <<"Setting stderr path to " \o Format(e) \o ".">> ELSE <<>>
      wo == IF obj.stdout = None
            THEN <<"Setting stdout path to " \o Format(o) \o ".">> ELSE <<>>
  IN [obj |-> [obj EXCEPT !.stderr = e, !.stdout = o], warn |-> we \o wo]

\* __redirect__, first half: the default redirect paths and the warning
\* logged for each default applied (the back quotes of the messages are
\* left out).
redirect_defaults(obj) ==
  LET e == IF obj.stderr = None
           THEN PyStr(path_join(obj.run_path.v, "stderr.log")) ELSE obj.stderr
      o == IF obj.stdout = None
           THEN PyStr(path_join(obj.run_path.v, "stdout.log")) ELSE obj.stdout
      we == IF obj.stderr = None
            THEN <<"Setting stderr path to " \o Format(e) \o ".">> ELSE <<>>
      wo == IF obj.stdout = None
            THEN <<"Setting stdout path to " \o Format(o) \o ".">> ELSE <<>>
  IN [obj |-> [obj EXCEPT !.stderr = e, !.stdout = o], warn |-> we \o wo]

\* __redirect__, second half: the pair of file objects the context manager
\* yields, named by the file each was opened on.
redirect_yield == <<"stderr", "stderr">>

\* Leaving the `with open(...)` block with the stdout file object kept
\* open.
redirect_exit_leak(h) ==
  [h EXCEPT !.stderr = IF @ = "open" THEN "closed" ELSE @]

\* __redirect__, leaving the `with open(...) as stderr, open(...) as stdout`
\* block, by return or by exception: every file object that was opened is
\* closed.
redirect_exit(h) ==
  [k \in DOMAIN h |-> IF h[k] = "open" THEN "closed" ELSE h[k]]

\* Entering the block without moving the process.
chdir_in_unmoved(now, path) == [saved |-> now, cwd |-> now]

\* fileio_interface.chdir(path), entering the block: the directory in effect
\* is remembered and the process moves to path.
chdir_in(now, path) == [saved |-> now, cwd |-> path]

\* Leaving the block without going back.
chdir_out_stay(saved, now) == now

\* fileio_interface.chdir(path), leaving the block, by return or by
\* exception: the process goes back to the remembered directory.
chdir_out(saved, now) == saved

\* The spawn given the directory to run in (cwd=run_path).
popen_cwd_explicit(now, run_path) == run_path

\* subprocess.Popen(cmd, stderr=..., stdout=...) is given no cwd: the child
\* starts in the directory the process is in at the moment of the call.
popen_cwd(now, run_path) == now

\* The path of the file an open handle writes to.
handle_path(obj, h) == IF h = "stderr" THEN obj.stderr.v ELSE obj.stdout.v

\* The child's writes, applied in order to the files its two streams were
\* redirected to by Popen(cmd, stderr=..., stdout=...).
RECURSIVE apply_writes(_, _, _, _)
apply_writes(fl, writes, obj, p) ==
  IF writes = <<>> THEN fl
  ELSE LET w == Head(writes)
           h == IF w[1] = "stdout" THEN p.stdout_to ELSE p.stderr_to
           path == handle_path(obj, h)
       IN apply_writes([fl EXCEPT ![path] = @ \o <<w[2]>>], Tail(writes), obj, p)

\* The exit code recorded only for a child that succeeded.
record_rc_success_only(obj, returncode) ==
  IF returncode.v = 0 THEN [obj EXCEPT !.rc = returncode] ELSE obj

\* exec_obj.rc = proc.returncode, the statement after proc.wait() and
\* before the test of the exit code.
record_rc(obj, returncode) == [obj EXCEPT !.rc = returncode]

\* The exit-code test written as `rc > 0`: a child killed by a signal
\* (negative returncode) passes.
run_check_rc_positive(obj) ==
  IF obj.rc.v > 0
  THEN Exc("ExecutableInterfaceError",
           "Executable " \o Format(obj.exec_path)
           \o " failed with error code " \o Format(obj.rc)
           \o "; the error log is available at " \o Format(obj.stderr)
           \o ". Aborting!!!")
  ELSE NoErr

\* __run, after the two scoped resources are released: raise on a non-zero
\* exit code.
run_check_rc(obj) ==
  IF ~PyEq(obj.rc, PyInt(0))
  THEN Exc("ExecutableInterfaceError",
           "Executable " \o Format(obj.exec_path)
           \o " failed with error code " \o Format(obj.rc)
           \o "; the error log is available at " \o Format(obj.stderr)
           \o ". Aborting!!!")
  ELSE NoErr

\* ------------------------------------------------------------------------
\* The inputs of the model.

TaskVars == {"NTASKS", "SLURM_NTASKS"}

\* The values a task variable may be bound to.
TaskVals(k) == IF k = "NTASKS" THEN {"0", "4"} ELSE {"0", "2"}

RootDir == "/opt/pyutils"

SchemaFile == path_join(RootDir, SchemaRelPath)

ImgFile == "/img/app.sif"

RunDir == "/work/run"

ExecFile == "/work/bin/app.exe"

OrigCwd == "/home/user"

\* os.environ: any subset of the task variables bound, PYUTILS_ROOT bound
\* or not.
Environs ==
  { e \in UNION { [S \cup R -> {"0", "2", "4", RootDir}] :
                    S \in SUBSET TaskVars, R \in {{}, {"PYUTILS_ROOT"}} } :
      \A k \in DOMAIN e :
         IF k = "PYUTILS_ROOT" THEN e[k] = RootDir ELSE e[k] \in TaskVals(k) }

\* The paths that exist on disk.
FsStates ==
  { {ImgFile, RunDir}, {SchemaFile, RunDir}, {SchemaFile, ImgFile},
    {SchemaFile, ImgFile, RunDir} }

RECURSIVE SeqsUpTo(_, _)
SeqsUpTo(S, n) ==
  IF n = 0 THEN {<<>>}
  ELSE LET shorter == SeqsUpTo(S, n - 1)
       IN shorter \cup { Append(q, x) : q \in shorter, x \in S }

Schedulers == {None, PyStr("mpi"), PyStr("SLURM"), PyStr("bogus")}

\* The Configuration Objects the builder may return.
ExecObjs ==
  [ exec_path   : {PyStr(ExecFile)},
    run_path    : {PyStr(RunDir)},
    scheduler   : Schedulers,
    launcher    : {None, PyStr("/opt/bin/launch")},
    multi       : {PyBool(TRUE), PyBool(FALSE)},
    serial      : {PyBool(TRUE), PyBool(FALSE), None},
    task_keys   : SeqsUpTo(TaskVars, MaxTaskKeys),
    ntasks      : {None},
    img_path    : {None, PyStr(ImgFile)},
    container   : {None},
    nprocs_flag : {None},
    cmd         : {<<>>},
    stderr      : {None, PyStr("/logs/app.err")},
    stdout      : {None, PyStr("/logs/app.out")},
    rc          : {None},
    schema_path : {None} ]

\* The object before the builder has run.
BlankObj ==
  [ exec_path |-> None, run_path |-> None, scheduler |-> None,
    launcher |-> None, multi |-> None, serial |-> None, task_keys |-> <<>>,
    ntasks |-> None, img_path |-> None, container |-> None,
    nprocs_flag |-> None, cmd |-> <<>>, stderr |-> None, stdout |-> None,
    rc |-> None, schema_path |-> None ]

\* What the host may answer to ["command", "-V", app].
Lookups(app) ==
  { [command |-> FALSE, out |-> <<>>],
    [command |-> TRUE,  out |-> <<>>],
    [command |-> TRUE,  out |-> <<app, "is", "/usr/bin/" \o app>>] }

\* What the child process may do: its writes, in order, and its exit code.
ChildBehaviours ==
  { [writes |-> <<<<"stdout", "ok">>>>, rc |-> 0],
    [writes |-> <<<<"stderr", "warn">>>>, rc |-> 0],
    [writes |-> <<>>, rc |-> 7],
    [writes |-> <<<<"stdout", "ok">>, <<"stderr", "boom">>>>, rc |-> 1],
    [writes |-> <<>>, rc |-> -9] }

NoProc ==
  [state |-> "none", stdout_to |-> "", stderr_to |-> "", cwd |-> "",
   writes |-> <<>>, returncode |-> None]

\* Two invocations of __run in two threads of one process, each with its
\* own run_path.
Threads == {1, 2}

RunDirs == <<"/work/run1", "/work/run2">>

\* An invocation about to enter `with fileio_interface.chdir(run_path)`.
ThreadAtChdir(t) ==
  [pc |-> "RUN_CHDIR", run_path |-> RunDirs[t], saved |-> "",
   child_cwd |-> "", rc |-> None]

\* The thread that downloads a file with curl_interface.get_webfile while
\* the invocations run.
WebThread == Cardinality(Threads) + 1

\* get_webfile about to look for curl and to read the working directory.
WebAtGetcwd ==
  [pc |-> "WEB_GETCWD", run_path |-> "", saved |-> "", child_cwd |-> "",
   rc |-> None]

\* No helper call is under way.
NoCall == [fn |-> "none"]

\* ------------------------------------------------------------------------
\* The state.

VARIABLES
  pc,        \* the statement of wrapper_function (or of __run) to execute next
  exec_obj,  \* the Configuration Object
  built,     \* the Configuration Object as the builder returned it
  environ,   \* os.environ
  fs,        \* the paths that exist on disk
  host,      \* whether the host is known to start a program called `command`
  err,       \* the exception that left wrapper_function, NoErr if none
  stages,    \* the stages executed so far, in order
  spawned,   \* the number of application child processes started
  log,       \* the messages logged, <<level, text>>
  cwd,       \* the working directory of the process
  saved_cwd, \* the directory fileio_interface.chdir restores on exit
  hnd,       \* the state of the two redirect file objects
  files,     \* the contents of the redirect files, as the chunks written
  proc,      \* the child process: the handles its streams were given and
             \* what it wrote
  inspections, \* the number of image-inspection subprocesses run
  thr,       \* the invocations running __run in concurrent threads
  lib        \* a call of a helper of tools/ or confs/: arguments and result

vars == <<pc, exec_obj, built, environ, fs, host, err, stages, spawned, log, cwd,
          saved_cwd, hnd, files, proc, inspections, thr, lib>>

Init ==
  /\ pc = "BUILD"
  /\ exec_obj = BlankObj
  /\ built = BlankObj
  /\ environ \in Environs
  /\ fs \in FsStates
  /\ host = "unknown"
  /\ err = NoErr
  /\ stages = <<>>
  /\ spawned = 0
  /\ log = <<>>
  /\ cwd = OrigCwd
  /\ saved_cwd = ""
  /\ hnd = [stderr |-> "none", stdout |-> "none"]
  /\ files = [p \in {} |-> <<>>]
  /\ proc = NoProc
  /\ inspections = 0
  /\ thr = <<>>
  /\ lib = NoCall

\* ------------------------------------------------------------------------
\* app_exec.wrapper_function: the order of the stages.

\* The wrapper with the launcher resolution left out.
next_stage_skip(stage) ==
  CASE stage = "BUILD"            -> "SCHEMA_RESOLVE"
    [] stage = "SCHEMA_RESOLVE"   -> "DEFAULTS_APPLY"
    [] stage = "DEFAULTS_APPLY"   -> "VALIDATE"
    [] stage = "LAUNCHER_RESOLVE" -> "VALIDATE"
    [] stage = "VALIDATE"         -> "RUN"
    [] stage = "RUN"              -> "DONE"

next_stage(stage) ==
  CASE stage = "BUILD"            -> "SCHEMA_RESOLVE"
    [] stage = "SCHEMA_RESOLVE"   -> "DEFAULTS_APPLY"
    [] stage = "DEFAULTS_APPLY"   -> "LAUNCHER_RESOLVE"
    [] stage = "LAUNCHER_RESOLVE" -> "VALIDATE"
    [] stage = "VALIDATE"         -> "RUN"
    [] stage = "RUN"              -> "DONE"

\* An exception caught and recorded, the pipeline going on to RUN.
Raise_continue(e) ==
  /\ pc' = "RUN"
  /\ err' = e

\* An exception leaves wrapper_function: nothing catches it.
Raise(e) ==
  /\ pc' = "ABORTED"
  /\ err' = e

\* What the host answers, consistent with what it answered before.
HostLookups(app) ==
  { l \in Lookups(app) : host = "present" => l.command }

\* ------------------------------------------------------------------------
\* The stages.

\* BUILD: the wrapped builder returns the Configuration Object.
func ==
  /\ pc = "BUILD"
  /\ exec_obj' \in ExecObjs
  /\ built' = exec_obj'
  /\ stages' = Append(stages, "BUILD")
  /\ pc' = next_stage("BUILD")
  /\ UNCHANGED <<environ, fs, host, err, spawned, log, cwd, saved_cwd, hnd,
                 files, proc, inspections, thr, lib>>

\* SCHEMA_RESOLVE.
__schema ==
  /\ pc = "SCHEMA_RESOLVE"
  /\ stages' = Append(stages, "SCHEMA_RESOLVE")
  /\ LET r == schema_resolve(exec_obj, environ, fs)
     IN IF r.err # NoErr
        THEN /\ Raise(r.err)
             /\ UNCHANGED <<exec_obj, log>>
        ELSE /\ exec_obj' = r.obj
             /\ log' = Append(log, <<"info", "Schema file is "
                                     \o Format(r.obj.schema_path) \o ".">>)
             /\ pc' = next_stage("SCHEMA_RESOLVE")
             /\ err' = err
  /\ UNCHANGED <<built, environ, fs, host, spawned, cwd, saved_cwd, hnd,
                 files, proc, inspections, thr, lib>>

\* DEFAULTS_APPLY.
__setup ==
  /\ pc = "DEFAULTS_APPLY"
  /\ stages' = Append(stages, "DEFAULTS_APPLY")
  /\ \E schema_ok \in BOOLEAN :
       LET r == validate_schema(exec_obj, schema_ok)
       IN IF r.err # NoErr
          THEN /\ Raise(r.err)
               /\ UNCHANGED exec_obj
          ELSE /\ exec_obj' = r.obj
               /\ pc' = next_stage("DEFAULTS_APPLY")
               /\ err' = err
  /\ UNCHANGED <<built, environ, fs, host, spawned, log, cwd, saved_cwd, hnd,
                 files, proc, inspections, thr, lib>>

\* Whether launcher resolution queries the host for a launcher binary.
launcher_queries(obj) ==
  /\ obj.launcher = None
  /\ obj.scheduler # None
  /\ str_lower(obj.scheduler.v) \in {"mpi", "slurm"}

\* The program the launcher lookup asks the host for.
launcher_app(obj) ==
  IF obj.scheduler # None /\ str_lower(obj.scheduler.v) = "mpi"
  THEN "mpirun" ELSE "srun"

\* LAUNCHER_RESOLVE, up to the start of the query `command -V <app>` when
\* there is one: without a query the stage is over in this step, and so it
\* is when the query program cannot be started.
launcher_enter ==
  /\ pc = "LAUNCHER_RESOLVE"
  /\ stages' = Append(stages, "LAUNCHER_RESOLVE")
  /\ \E lookup \in HostLookups(launcher_app(exec_obj)) :
       LET r == launcher_resolve(exec_obj, lookup)
       IN /\ launcher_queries(exec_obj) \/ lookup = [command |-> TRUE, out |-> <<>>]
          /\ IF launcher_queries(exec_obj) /\ lookup.command
             THEN /\ host' = "present"
                  /\ pc' = "LAUNCHER_WAIT"
                  /\ UNCHANGED <<exec_obj, err, log>>
             ELSE /\ host' = host
                  /\ IF r.err # NoErr
                     THEN /\ Raise(r.err)
                          /\ UNCHANGED <<exec_obj, log>>
                     ELSE /\ exec_obj' = r.obj
                          /\ log' = IF r.warn = <<>> THEN log
                                    ELSE Append(log, <<"warn", r.warn[1]>>)
                          /\ pc' = next_stage("LAUNCHER_RESOLVE")
                          /\ err' = err
  /\ UNCHANGED <<built, environ, fs, spawned, cwd, saved_cwd, hnd, files,
                 proc, inspections, thr, lib>>

\* LAUNCHER_RESOLVE, after proc.communicate() in app_path: the query has
\* ended and the launcher is stored.
launcher_store ==
  /\ pc = "LAUNCHER_WAIT"
  /\ \E lookup \in HostLookups(launcher_app(exec_obj)) :
       LET r == launcher_resolve(exec_obj, lookup)
       IN /\ lookup.command
          /\ IF r.err # NoErr
             THEN /\ Raise(r.err)
                  /\ UNCHANGED <<exec_obj, log>>
             ELSE /\ exec_obj' = r.obj
                  /\ log' = IF r.warn = <<>> THEN log
                            ELSE Append(log, <<"warn", r.warn[1]>>)
                  /\ pc' = next_stage("LAUNCHER_RESOLVE")
                  /\ err' = err
  /\ UNCHANGED <<built, environ, fs, host, stages, spawned, cwd, saved_cwd,
                 hnd, files, proc, inspections, thr, lib>>

__launcher == launcher_enter \/ launcher_store

\* Whether container resolution queries the host for the inspection tool.
sifimg_queries(obj) ==
  /\ object_getattr_img_path(obj) # None
  /\ fileexist(fs, obj.img_path.v)

\* How `singularity inspect` may end: its exit status, negative when a
\* signal ended it.
InspectEndings == {0, 1, 2, 255, -9}

\* VALIDATE, up to the start of the query `command -V singularity` when
\* there is one: without a query (no img_path, or an image that does not
\* exist) the stage is over in this step, and so it is when the query
\* program cannot be started.
validate_enter ==
  /\ pc = "VALIDATE"
  /\ stages' = Append(stages, "VALIDATE")
  /\ \E lookup \in HostLookups("singularity"), schema_ok \in BOOLEAN :
       LET r == validate_stage(exec_obj, environ, fs, lookup, TRUE, schema_ok)
       IN /\ sifimg_queries(exec_obj)
               \/ lookup = [command |-> TRUE, out |-> <<>>]
          /\ IF sifimg_queries(exec_obj) /\ lookup.command
             THEN /\ host' = "present"
                  /\ pc' = "VALIDATE_LOOKUP"
                  /\ UNCHANGED <<exec_obj, err>>
             ELSE /\ host' = host
                  /\ exec_obj' = r.obj
                  /\ IF r.err # NoErr
                     THEN Raise(r.err)
                     ELSE /\ pc' = next_stage("VALIDATE")
                          /\ err' = err
  /\ UNCHANGED <<built, environ, fs, spawned, log, cwd, saved_cwd, hnd,
                 files, proc, inspections, thr, lib>>

\* VALIDATE, after proc.communicate() in app_path: with a path for the
\* tool, subprocess.run starts `singularity inspect`; with None for it,
\* subprocess.run raises before any process is started.
validate_lookup ==
  /\ pc = "VALIDATE_LOOKUP"
  /\ \E lookup \in HostLookups("singularity") :
       LET r == __check_sifimg__(exec_obj, fs, lookup, TRUE)
       IN /\ lookup.command
          /\ IF inspect_runs(exec_obj, fs, lookup) = 1
             THEN /\ inspections' = inspections + 1
                  /\ pc' = "VALIDATE_INSPECT"
                  /\ UNCHANGED <<exec_obj, err>>
             ELSE /\ inspections' = inspections
                  /\ exec_obj' = r.obj
                  /\ Raise(r.err)
  /\ UNCHANGED <<built, environ, fs, host, stages, spawned, log, cwd,
                 saved_cwd, hnd, files, proc, thr, lib>>

\* VALIDATE, after `singularity inspect` has ended: the message for a
\* failed inspection, the container flag, task-type resolution and the
\* schema validation.
validate_inspect ==
  /\ pc = "VALIDATE_INSPECT"
  /\ \E lookup \in HostLookups("singularity"), returncode \in InspectEndings,
        schema_ok \in BOOLEAN :
       LET r == validate_stage(exec_obj, environ, fs, lookup, returncode = 0,
                               schema_ok)
       IN /\ inspect_runs(exec_obj, fs, lookup) = 1
          /\ log' = IF returncode # 0
                    THEN Append(log, <<"info",
                           InspectFailedMsg(exec_obj,
                             app_path("singularity", lookup).val,
                             returncode)>>)
                    ELSE log
          /\ exec_obj' = r.obj
          /\ IF r.err # NoErr
             THEN Raise(r.err)
             ELSE /\ pc' = next_stage("VALIDATE")
                  /\ err' = err
  /\ UNCHANGED <<built, environ, fs, host, stages, spawned, cwd, saved_cwd,
                 hnd, files, proc, inspections, thr, lib>>

__validate == validate_enter \/ validate_lookup \/ validate_inspect

\* ------------------------------------------------------------------------
\* RUN: the steps of __run.

\* open(path, "w") needs the directory of the path; the default redirect
\* files live under run_path.
openable(path) ==
  LET d == RunDir \o "/"
  IN IF Len(path) >= Len(d) /\ SubSeq(path, 1, Len(d)) = d
     THEN RunDir \in fs
     ELSE TRUE

NoSuchFile(path) ==
  Exc("FileNotFoundError",
      "[Errno 2] No such file or directory: '" \o path \o "'")

\* __get_cmd__ and the launch message.
run_assemble ==
  /\ pc = "RUN"
  /\ stages' = Append(stages, "RUN")
  /\ LET r == __get_cmd__(exec_obj)
     IN IF r.err # NoErr
        THEN /\ Raise(r.err)
             /\ UNCHANGED <<exec_obj, log>>
        ELSE /\ exec_obj' = r.obj
             /\ log' = Append(log, <<"info", "Launching executable "
                          \o Format(r.obj.exec_path) \o " in path "
                          \o Format(r.obj.run_path) \o ".">>)
             /\ pc' = "RUN_REDIRECT"
             /\ err' = err
  /\ UNCHANGED <<built, environ, fs, host, spawned, cwd, saved_cwd, hnd,
                 files, proc, inspections, thr, lib>>

\* Entering `with __redirect__(...)`: the defaults, then the two files are
\* opened for writing, stderr first.
redirect_enter ==
  /\ pc = "RUN_REDIRECT"
  /\ LET d == redirect_defaults(exec_obj)
         e == d.obj.stderr.v
         o == d.obj.stdout.v
     IN /\ exec_obj' = d.obj
        /\ log' = log \o [i \in 1..Len(d.warn) |-> <<"warn", d.warn[i]>>]
        /\ IF ~openable(e)
           THEN /\ Raise(NoSuchFile(e))
                /\ UNCHANGED <<hnd, files>>
           ELSE IF ~openable(o)
           THEN /\ Raise(NoSuchFile(o))
                /\ hnd' = [stderr |-> "closed", stdout |-> "none"]
                /\ files' = [p \in DOMAIN files \cup {e} |-> <<>>]
           ELSE /\ hnd' = [stderr |-> "open", stdout |-> "open"]
                /\ files' = [p \in DOMAIN files \cup {e, o} |-> <<>>]
                /\ pc' = "RUN_CHDIR"
                /\ err' = err
  /\ UNCHANGED <<built, environ, fs, host, stages, spawned, cwd, saved_cwd,
                 proc, inspections, thr, lib>>

\* Entering `with fileio_interface.chdir(run_path)`.
chdir_enter ==
  /\ pc = "RUN_CHDIR"
  /\ IF ~fileexist(fs, exec_obj.run_path.v)
     THEN /\ Raise(NoSuchFile(exec_obj.run_path.v))
          /\ hnd' = redirect_exit(hnd)
          /\ UNCHANGED <<cwd, saved_cwd>>
     ELSE /\ saved_cwd' = chdir_in(cwd, exec_obj.run_path.v).saved
          /\ cwd' = chdir_in(cwd, exec_obj.run_path.v).cwd
          /\ pc' = "RUN_SPAWN"
          /\ UNCHANGED <<err, hnd>>
  /\ UNCHANGED <<exec_obj, built, environ, fs, host, stages, spawned, log,
                 files, proc, inspections, thr, lib>>

\* subprocess.Popen(cmd, stderr=stderr, stdout=stdout), with the names
\* bound by `as (stderr, stdout)`; the host may fail to start the command.
spawn ==
  /\ pc = "RUN_SPAWN"
  /\ \E started \in BOOLEAN :
       IF ~started
       THEN /\ Raise(NoSuchFile(exec_obj.cmd[1]))
            /\ cwd' = chdir_out(saved_cwd, cwd)
            /\ hnd' = redirect_exit(hnd)
            /\ UNCHANGED <<spawned, proc>>
       ELSE /\ spawned' = spawned + 1
            /\ proc' = [state |-> "running",
                        stderr_to |-> redirect_yield[1],
                        stdout_to |-> redirect_yield[2],
                        cwd |-> popen_cwd(cwd, exec_obj.run_path.v),
                        returncode |-> None,
                        writes |-> <<>>]
            /\ pc' = "RUN_WAIT"
            /\ UNCHANGED <<err, cwd, hnd>>
  /\ UNCHANGED <<exec_obj, built, environ, fs, host, stages, log, saved_cwd,
                 files, inspections, thr, lib>>

\* proc.wait() and rc = proc.returncode; then both `with` blocks are left.
wait ==
  /\ pc = "RUN_WAIT"
  /\ \E b \in ChildBehaviours :
       /\ files' = apply_writes(files, b.writes, exec_obj, proc)
       /\ exec_obj' = record_rc(exec_obj, PyInt(b.rc))
       /\ proc' = [proc EXCEPT !.state = "exited", !.writes = b.writes,
                               !.returncode = PyInt(b.rc)]
  /\ cwd' = chdir_out(saved_cwd, cwd)
  /\ hnd' = redirect_exit(hnd)
  /\ pc' = "RUN_CHECK"
  /\ UNCHANGED <<built, environ, fs, host, err, stages, spawned, log,
                 saved_cwd, inspections, thr, lib>>

\* The completion message: three lines in one entry, the second line
\* ending before its full stop as in the source (the back quotes around
\* stderr and stdout are left out).
CompletedMsg(obj) ==
  "Executable " \o Format(obj.exec_path) \o " completed with return code "
  \o Format(obj.rc) \o ".\n"
  \o "Executable " \o Format(obj.exec_path) \o " stderr written to path "
  \o Format(obj.stderr) \o "\n."
  \o "Executable " \o Format(obj.exec_path) \o " stdout written to path "
  \o Format(obj.stdout) \o "."

\* The test of the exit code and the completion message.
run_check ==
  /\ pc = "RUN_CHECK"
  /\ LET e == run_check_rc(exec_obj)
     IN IF e # NoErr
        THEN /\ Raise(e)
             /\ log' = log
        ELSE /\ log' = Append(log, <<"info", CompletedMsg(exec_obj)>>)
             /\ pc' = next_stage("RUN")
             /\ err' = err
  /\ UNCHANGED <<exec_obj, built, environ, fs, host, stages, spawned, cwd,
                 saved_cwd, hnd, files, proc, inspections, thr, lib>>

__run == run_assemble \/ redirect_enter \/ chdir_enter \/ spawn \/ wait
           \/ run_check

\* ------------------------------------------------------------------------

Next == func \/ __schema \/ __setup \/ __launcher \/ __validate \/ __run

Spec == Init /\ [][Next]_vars

\* ------------------------------------------------------------------------
\* Two invocations running __run concurrently in one process.  The
\* interpreter switches threads between statements; the working directory
\* is the one of the process, and no lock is taken around the block.

mainvars ==
  <<pc, exec_obj, built, environ, fs, host, err, stages, spawned, log,
    saved_cwd, hnd, files, proc, inspections, lib>>

InitConc ==
  /\ pc = "RUN_CHDIR"
  /\ exec_obj = BlankObj
  /\ built = BlankObj
  /\ environ = [k \in {} |-> ""]
  /\ fs = {RunDirs[1], RunDirs[2]}
  /\ host = "unknown"
  /\ err = NoErr
  /\ stages = <<>>
  /\ spawned = 0
  /\ log = <<>>
  /\ cwd = OrigCwd
  /\ saved_cwd = ""
  /\ hnd = [stderr |-> "open", stdout |-> "open"]
  /\ files = [p \in {} |-> <<>>]
  /\ proc = NoProc
  /\ inspections = 0
  /\ thr = [t \in Threads \cup {WebThread} |->
              IF t \in Threads THEN ThreadAtChdir(t) ELSE WebAtGetcwd]
  /\ lib = NoCall

\* Thread t enters `with fileio_interface.chdir(run_path)`.
conc_chdir_enter(t) ==
  /\ thr[t].pc = "RUN_CHDIR"
  /\ LET c == chdir_in(cwd, thr[t].run_path)
     IN /\ cwd' = c.cwd
        /\ thr' = [thr EXCEPT ![t].saved = c.saved, ![t].pc = "RUN_SPAWN"]
  /\ UNCHANGED mainvars

\* Thread t calls subprocess.Popen; the host may fail to start the command,
\* and the exception leaves the chdir block.
conc_spawn(t) ==
  /\ thr[t].pc = "RUN_SPAWN"
  /\ \E started \in BOOLEAN :
       IF ~started
       THEN /\ cwd' = chdir_out(thr[t].saved, cwd)
            /\ thr' = [thr EXCEPT ![t].pc = "RAISED"]
       ELSE /\ thr' = [thr EXCEPT
                         ![t].child_cwd = popen_cwd(cwd, thr[t].run_path),
                         ![t].pc = "RUN_WAIT"]
            /\ cwd' = cwd
  /\ UNCHANGED mainvars

\* Thread t: proc.wait() returns, rc is recorded and the chdir block is
\* left.
conc_wait(t) ==
  /\ thr[t].pc = "RUN_WAIT"
  /\ \E b \in ChildBehaviours :
       thr' = [thr EXCEPT ![t].rc = PyInt(b.rc), ![t].pc = "RETURNED"]
  /\ cwd' = chdir_out(thr[t].saved, cwd)
  /\ UNCHANGED mainvars

\* get_webfile, up to cwd = os.getcwd(): without a curl program
\* __check_curl_env__ raises before the directory is read.
webfile_getcwd ==
  /\ thr[WebThread].pc = "WEB_GETCWD"
  /\ \E curl_found \in BOOLEAN :
       thr' = IF curl_found
              THEN [thr EXCEPT ![WebThread].saved = cwd,
                               ![WebThread].pc = "WEB_SPAWN"]
              ELSE [thr EXCEPT ![WebThread].pc = "RAISED"]
  /\ cwd' = cwd
  /\ UNCHANGED mainvars

\* get_webfile, subprocess.Popen(cmd, ...) for curl, given no cwd either;
\* when the command cannot be started the handler is reached without
\* os.chdir, and it raises unless ignore_missing is set.
webfile_spawn ==
  /\ thr[WebThread].pc = "WEB_SPAWN"
  /\ \E started \in BOOLEAN, ignore_missing \in BOOLEAN :
       thr' = IF started
              THEN [thr EXCEPT
                      ![WebThread].child_cwd = popen_cwd(cwd, ""),
                      ![WebThread].pc = "WEB_WAIT"]
              ELSE [thr EXCEPT ![WebThread].pc =
                      IF ignore_missing THEN "RETURNED" ELSE "RAISED"]
  /\ cwd' = cwd
  /\ UNCHANGED mainvars

\* get_webfile, after proc.wait(): os.chdir(cwd) moves the process to the
\* directory read at the start.
webfile_chdir ==
  /\ thr[WebThread].pc = "WEB_WAIT"
  /\ cwd' = thr[WebThread].saved
  /\ thr' = [thr EXCEPT ![WebThread].pc = "RETURNED"]
  /\ UNCHANGED mainvars

get_webfile == webfile_getcwd \/ webfile_spawn \/ webfile_chdir

NextConc ==
  \/ \E t \in Threads : conc_chdir_enter(t) \/ conc_spawn(t) \/ conc_wait(t)
  \/ get_webfile

SpecConc == InitConc /\ [][NextConc]_vars

\* ------------------------------------------------------------------------
\* tools/parser_interface.py: dictionaries and lists.  A Python dict is a
\* function from its keys to its values, a list a sequence.

\* dict_key_value(dict_in, key, force=True, no_split=True): the value as it
\* is, None for a key that is missing.
dict_key_value(dict_in, key) ==
  IF key \in DOMAIN dict_in THEN dict_in[key] ELSE None

\* update_dict: the output starts as base_dict; for each key of
\* default_dict that it lacks the value is collected, and assigned only
\* under `if not update_none`.
update_dict(default_dict, base_dict, update_none) ==
  LET missing == { key \in DOMAIN default_dict : key \notin DOMAIN base_dict }
  IN IF update_none THEN base_dict
     ELSE [ key \in DOMAIN base_dict \cup missing |->
              IF key \in DOMAIN base_dict THEN base_dict[key]
              ELSE dict_key_value(default_dict, key) ]

\* str.islower() and str.isupper(): at least one cased character, and no
\* character of the other case.
islower(s) == str_lower(s) = s /\ str_upper(s) # s

isupper(s) == str_upper(s) = s /\ str_lower(s) # s

\* A Python list value.
PyList(q) == [t |-> "list", v |-> q]

\* One `for string in ...: if ...: match_str = string; break` loop of
\* match_list: the first element that matches, by equality or by
\* containment of the lower-cased strings; None when the loop assigns
\* nothing.
RECURSIVE first_match(_, _, _)
first_match(list, match_string, by_containment) ==
  IF list = <<>> THEN None
  ELSE LET string == Head(list)
           hit == IF by_containment
                  THEN Contains(str_lower(string), str_lower(match_string))
                  ELSE str_lower(match_string) = str_lower(string)
       IN IF hit THEN PyStr(string)
          ELSE first_match(Tail(list), match_string, by_containment)

\* The elements of list that contain match_string, ignoring case.
RECURSIVE all_matches(_, _)
all_matches(list, match_string) ==
  IF list = <<>> THEN <<>>
  ELSE (IF Contains(str_lower(Head(list)), str_lower(match_string))
        THEN <<Head(list)>> ELSE <<>>)
       \o all_matches(Tail(list), match_string)

\* match_list: the list is split by case; with exact, the lower-case and
\* mixed-case elements are compared with ==, the upper-case ones with `in`,
\* and a later loop that matches overwrites an earlier one.
match_list(in_list, match_string, exact) ==
  LET lower_list == SelectSeq(in_list, LAMBDA word : islower(word))
      upper_list == SelectSeq(in_list, LAMBDA word : isupper(word))
      mixed_list == SelectSeq(in_list,
                      LAMBDA word : ~islower(word) /\ ~isupper(word))
  IN IF exact
     THEN LET m1 == first_match(lower_list, match_string, FALSE)
              m2 == first_match(upper_list, match_string, TRUE)
              m3 == first_match(mixed_list, match_string, FALSE)
              match_str == IF m3 # None THEN m3
                           ELSE IF m2 # None THEN m2 ELSE m1
          IN [match_chk |-> match_str # None, match_str |-> match_str]
     ELSE LET match_str == all_matches(lower_list, match_string)
                           \o all_matches(upper_list, match_string)
                           \o all_matches(mixed_list, match_string)
          IN [match_chk |-> Len(match_str) > 0, match_str |-> PyList(match_str)]

\* The characters of the model's strings in code-point order.
CodePoints ==
  " %0123456789<>@ABCDEFGHIJKLMNOPQRSTUVWXYZ[]abcdefghijklmnopqrstuvwxyz{}"

ord(c) == CHOOSE i \in 1..Len(CodePoints) : SubSeq(CodePoints, i, i) = c

\* a < b for strings: by code point, a proper prefix first.
RECURSIVE str_lt(_, _)
str_lt(a, b) ==
  IF Len(b) = 0 THEN FALSE
  ELSE IF Len(a) = 0 THEN TRUE
  ELSE LET x == ord(SubSeq(a, 1, 1))
           y == ord(SubSeq(b, 1, 1))
       IN IF x # y THEN x < y
          ELSE str_lt(SubSeq(a, 2, Len(a)), SubSeq(b, 2, Len(b)))

\* sorted(keys) for a set of strings.
RECURSIVE sorted(_)
sorted(S) ==
  IF S = {} THEN <<>>
  ELSE LET least == CHOOSE x \in S : \A y \in S \ {x} : str_lt(x, y)
       IN <<least>> \o sorted(S \ {least})

\* str.replace(old, new), old not empty: the occurrences from left to
\* right, not overlapping.
RECURSIVE str_replace(_, _, _)
str_replace(s, old, new) ==
  IF Len(s) < Len(old) THEN s
  ELSE IF SubSeq(s, 1, Len(old)) = old
  THEN new \o str_replace(SubSeq(s, Len(old) + 1, Len(s)), old, new)
  ELSE SubSeq(s, 1, 1) \o str_replace(SubSeq(s, 2, Len(s)), old, new)

\* unique_list: the elements as the keys of a dictionary (each once), the
\* keys sorted, and then each key with its blanks removed.
unique_list(in_list) ==
  LET out_dict == { in_list[i] : i \in 1..Len(in_list) }
      keys == sorted(out_dict)
  IN [i \in 1..Len(keys) |-> str_replace(keys[i], " ", "")]

\* type(x).__name__.
type_name(x) == IF x.t = "none" THEN "NoneType" ELSE x.t

\* The index (from 1) of the first item of items that is not a string, 0
\* when all are strings.
RECURSIVE first_non_str(_, _)
first_non_str(items, i) ==
  IF i > Len(items) THEN 0
  ELSE IF items[i].t # "str" THEN i
  ELSE first_non_str(items, i + 1)

\* ",".join(items) for items that are all strings.
RECURSIVE comma_join(_)
comma_join(items) ==
  IF items = <<>> THEN ""
  ELSE IF Len(items) = 1 THEN items[1].v
  ELSE items[1].v \o "," \o comma_join(Tail(items))

\* parser_interface.enviro_set(envvar, value): a list is stored as its
\* items joined by commas, any other value as it is; os.environ and
\* str.join accept strings only.  The items of the list are Python values.
enviro_set(env, envvar, value) ==
  LET bind(text) == [k \in DOMAIN env \cup {envvar} |->
                       IF k = envvar THEN text ELSE env[k]]
  IN IF value.t = "list"
     THEN LET i == first_non_str(value.v, 1)
          IN IF i = 0
             THEN [environ |-> bind(comma_join(value.v)), err |-> NoErr]
             ELSE [environ |-> env,
                   err |-> Exc("TypeError",
                               "sequence item " \o ToString(i - 1)
                               \o ": expected str instance, "
                               \o type_name(value.v[i]) \o " found")]
     ELSE IF value.t = "str"
     THEN [environ |-> bind(value.v), err |-> NoErr]
     ELSE [environ |-> env,
           err |-> Exc("TypeError",
                       "str expected, not " \o type_name(value))]

\* ------------------------------------------------------------------------
\* confs/template_interface.py.

\* TMPL_ITEM_LIST, each item formatted with the attribute name
\* (tmpl_item % attr_key).
TMPL_ITEM_LIST(attr_key) ==
  << "@[" \o attr_key \o "]",
     "[@" \o attr_key \o "]",
     "{@" \o attr_key \o "}",
     "{%" \o attr_key \o "%}",
     "{{% " \o attr_key \o " %}}",
     "<" \o attr_key \o ">",
     "{% " \o attr_key \o " %}",
     "{{ " \o attr_key \o " }}" >>

\* The characters of TMPL_ITEM_LIST, the blank left out.
tmpl_char_list == {"@", "[", "]", "{", "}", "%", "<", ">"}

\* parser_interface.f90_bool: a bool becomes "T" or "F", any other value is
\* returned as it is.
f90_bool(value) ==
  IF value.t = "bool" THEN PyStr(IF value.v THEN "T" ELSE "F") ELSE value

\* The inner loop of render_tmpl for one attribute: each template item of
\* the attribute is replaced by str(value), in the order of the list.
RECURSIVE render_items(_, _, _)
render_items(str, items, text) ==
  IF items = <<>> THEN str
  ELSE render_items(str_replace(str, Head(items), text), Tail(items), text)

\* The outer loop over vars(tmpl_obj).items(), a sequence of <<key, value>>
\* in insertion order; an attribute whose value is None is skipped.
RECURSIVE render_attrs(_, _, _)
render_attrs(str, attrs, f90) ==
  IF attrs = <<>> THEN str
  ELSE LET attr_key == Head(attrs)[1]
           value == Head(attrs)[2]
           attr_value == IF f90 THEN f90_bool(value) ELSE value
       IN render_attrs(IF value # None
                       THEN render_items(str, TMPL_ITEM_LIST(attr_key),
                                         Format(attr_value))
                       ELSE str,
                       Tail(attrs), f90)

\* str.split("\n").
RECURSIVE split_lines(_, _)
split_lines(s, line) ==
  IF Len(s) = 0 THEN <<line>>
  ELSE IF SubSeq(s, 1, 1) = "\n"
  THEN <<line>> \o split_lines(SubSeq(s, 2, Len(s)), "")
  ELSE split_lines(SubSeq(s, 2, Len(s)), line \o SubSeq(s, 1, 1))

\* The whitespace characters str.strip() removes, as far as a string of
\* the model can hold them: blank, tab, line feed, carriage return and form
\* feed.
Whitespace == {" ", "\t", "\n", "\r", "\f"}

\* str.strip(): leading and trailing whitespace removed.
RECURSIVE strip(_)
strip(s) ==
  IF Len(s) = 0 THEN s
  ELSE IF SubSeq(s, 1, 1) \in Whitespace THEN strip(SubSeq(s, 2, Len(s)))
  ELSE IF SubSeq(s, Len(s), Len(s)) \in Whitespace
  THEN strip(SubSeq(s, 1, Len(s) - 1))
  ELSE s

\* ", ".join(list).
RECURSIVE join(_)
join(list) ==
  IF list = <<>> THEN ""
  ELSE IF Len(list) = 1 THEN list[1]
  ELSE list[1] \o ", " \o join(Tail(list))

\* The lines of the rendered string that still hold a template character,
\* stripped.
RECURSIVE unrendered_lines(_)
unrendered_lines(lines) ==
  IF lines = <<>> THEN <<>>
  ELSE (IF \E item \in tmpl_char_list : Contains(Head(lines), item)
        THEN <<strip(Head(lines))>> ELSE <<>>)
       \o unrendered_lines(Tail(lines))

\* Template.render_tmpl.  The test of fail_missing is made inside
\* `if warn:`.  The result: the string returned (None when the call
\* raised), the exception, the warnings logged, and the local
\* tmpl_str_list.
render_tmpl(tmpl_obj, tmpl_str_in, fail_missing, f90, warn) ==
  LET tmpl_str_out == render_attrs(tmpl_str_in, tmpl_obj, f90)
      tmpl_str_list == unrendered_lines(split_lines(tmpl_str_out, ""))
      msg == "The following template(s) was (were) not rendered: "
             \o join(tmpl_str_list) \o "."
  IN IF warn /\ Len(tmpl_str_list) > 0 /\ fail_missing
     THEN [out |-> None,
           err |-> Exc("TemplateInterfaceError", msg \o " Aborting!!!"),
           warn |-> <<>>, tmpl_str_list |-> tmpl_str_list]
     ELSE [out |-> PyStr(tmpl_str_out), err |-> NoErr,
           warn |-> IF warn /\ Len(tmpl_str_list) > 0 THEN <<msg>> ELSE <<>>,
           tmpl_str_list |-> tmpl_str_list]

\* ------------------------------------------------------------------------
\* confs/yaml_interface.py.  The disk is a function from the paths that
\* exist to the document each file holds: a mapping (PyDict) or nothing
\* (an empty file, which yaml.load reads as None).

PyDict(d) == [t |-> "dict", v |-> d]

\* parser_interface.dict_merge(dict1, dict2) with the default lowercase =
\* uppercase = False: a key of both takes dict2's value, except that two
\* mappings under the same key are merged in turn.
RECURSIVE dict_merge(_, _)
dict_merge(dict1, dict2) ==
  [ k \in DOMAIN dict1 \cup DOMAIN dict2 |->
      IF k \in DOMAIN dict1 /\ k \in DOMAIN dict2
      THEN IF dict1[k].t = "dict" /\ dict2[k].t = "dict"
           THEN PyDict(dict_merge(dict1[k].v, dict2[k].v))
           ELSE dict2[k]
      ELSE IF k \in DOMAIN dict1 THEN dict1[k] ELSE dict2[k] ]

MissingFileMsg(yaml_file) ==
  "The file path " \o yaml_file \o " does not exist and will not be processed."

\* The loop of concat_yaml over yaml_file_list, from the composite
\* dictionary and the warnings so far.  An existing file is read and
\* merged in; merging a document that is no mapping raises inside
\* `try: ... except Exception: pass` and leaves the composite as it is.
\* The files of the model are valid YAML, so fail_nonvalid decides nothing.
RECURSIVE concat_loop(_, _, _, _, _, _)
concat_loop(yaml_file_list, disk, fail_nonvalid, ignore_missing, yaml_dict_concat, warn) ==
  IF yaml_file_list = <<>>
  THEN [dict |-> yaml_dict_concat, err |-> NoErr, warn |-> warn]
  ELSE LET yaml_file == Head(yaml_file_list)
           exist == fileexist(DOMAIN disk, yaml_file)
       IN IF exist
          THEN concat_loop(Tail(yaml_file_list), disk, fail_nonvalid,
                           ignore_missing,
                           IF disk[yaml_file].t = "dict"
                           THEN dict_merge(yaml_dict_concat, disk[yaml_file].v)
                           ELSE yaml_dict_concat,
                           warn)
          ELSE IF ignore_missing
          THEN concat_loop(Tail(yaml_file_list), disk, fail_nonvalid,
                           ignore_missing, yaml_dict_concat,
                           Append(warn, MissingFileMsg(yaml_file)))
          ELSE [dict |-> yaml_dict_concat,
                err |-> Exc("YAMLInterfaceError",
                            "The file path " \o yaml_file
                            \o " does not exist. Aborting!!!"),
                warn |-> warn]

\* write_yaml(yaml_file, in_dict): the file is opened with "w" and holds
\* the dumped mapping.
write_yaml(disk, yaml_file, in_dict) ==
  [ path \in DOMAIN disk \cup {yaml_file} |->
      IF path = yaml_file THEN PyDict(in_dict) ELSE disk[path] ]

\* concat_yaml writing what was aggregated so far also when the loop
\* raised.
concat_yaml_partial(yaml_file_list, yaml_file_out, fail_nonvalid, ignore_missing, disk) ==
  LET r == concat_loop(yaml_file_list, disk, fail_nonvalid, ignore_missing,
                       <<>>, <<>>)
  IN [err |-> r.err, warn |-> r.warn,
      disk |-> write_yaml(disk, yaml_file_out, r.dict)]

\* YAML.concat_yaml: the loop, and after it the write; an exception of the
\* loop leaves the method before the write.
concat_yaml(yaml_file_list, yaml_file_out, fail_nonvalid, ignore_missing, disk) ==
  LET r == concat_loop(yaml_file_list, disk, fail_nonvalid, ignore_missing,
                       <<>>, <<>>)
  IN IF r.err # NoErr
     THEN [err |-> r.err, warn |-> r.warn, disk |-> disk]
     ELSE [err |-> NoErr, warn |-> r.warn,
           disk |-> write_yaml(disk, yaml_file_out, r.dict)]

\* ------------------------------------------------------------------------
\* The helper calls: one call per behaviour, its arguments drawn from small
\* sets.

DictKeys == {"a", "b"}

DictVals == {PyInt(1), PyInt(2), None}

\* The dictionaries over DictKeys.
Dicts == UNION { [K -> DictVals] : K \in SUBSET DictKeys }

UpdateDictCalls ==
  [ fn : {"update_dict"}, state : {"called"}, default_dict : Dicts,
    base_dict : Dicts, update_none : BOOLEAN ]

MaxListLen == 2

\* Lower-case, upper-case and mixed-case words, with and without "ab"
\* inside.
Words == {"ab", "AB", "Ab", "xab", "XAB", "xAb"}

MatchListCalls ==
  [ fn : {"match_list"}, state : {"called"},
    in_list : SeqsUpTo(Words, MaxListLen), match_string : {"ab", "AB", "b"},
    exact : BOOLEAN ]

\* Strings with and without blanks.
Items == {"a", "b", "ab", "a b", " a", "B"}

UniqueListCalls ==
  [ fn : {"unique_list"}, state : {"called"},
    in_list : SeqsUpTo(Items, MaxListLen) ]

\* vars(tmpl_obj).items(): attributes bound, unbound (None), boolean, and
\* one whose value is itself a template of the next.
TmplObjs ==
  { <<>>,
    << <<"a", PyInt(1)>> >>,
    << <<"a", PyBool(TRUE)>> >>,
    << <<"a", None>> >>,
    << <<"b", PyStr("x")>> >>,
    << <<"a", PyInt(1)>>, <<"b", PyStr("x")>> >>,
    << <<"a", PyStr("<b>")>>, <<"b", PyBool(FALSE)>> >> }

TmplStrs ==
  { "plain", "x=<a>", "x=<a>\ny={@b}", " [@a] {{ b }} ", "p > q",
    "\tx=<a>\r", "x=<a>\r\n\t y={@b}\f" }

RenderTmplCalls ==
  [ fn : {"render_tmpl"}, state : {"called"}, tmpl_obj : TmplObjs,
    tmpl_str_in : TmplStrs, fail_missing : BOOLEAN, f90_bool : BOOLEAN,
    warn : BOOLEAN ]

YamlFiles == {"/y/a.yaml", "/y/b.yaml", "/y/c.yaml"}

YamlOut == "/y/out.yaml"

EmptyDoc == [t |-> "empty"]

\* The documents a file of the model may hold.
YamlDocs(path) ==
  CASE path = "/y/a.yaml" -> { PyDict([k |-> PyInt(1)]) }
    [] path = "/y/b.yaml" ->
         { PyDict([k |-> PyInt(2), m |-> PyDict([n |-> PyInt(1)])]),
           EmptyDoc }
    [] path = "/y/c.yaml" -> { PyDict([m |-> PyDict([p |-> PyInt(2)])]) }
    [] path = YamlOut     -> { PyDict([old |-> PyInt(0)]) }

\* The disks: each file present or not, the output file included.
Disks ==
  { d \in UNION { [S -> UNION { YamlDocs(q) : q \in YamlFiles \cup {YamlOut} }] :
                    S \in SUBSET (YamlFiles \cup {YamlOut}) } :
      \A path \in DOMAIN d : d[path] \in YamlDocs(path) }

ConcatYamlCalls ==
  [ fn : {"concat_yaml"}, state : {"called"},
    yaml_file_list : SeqsUpTo(YamlFiles, MaxListLen),
    yaml_file_out : {YamlOut}, fail_nonvalid : {TRUE},
    ignore_missing : BOOLEAN, disk : Disks ]

\* Calls of enviro_set: the environment before the call, a task variable
\* and a value that is a string, a list or something else.
EnviroSetCalls ==
  [ fn : {"enviro_set"}, state : {"called"},
    environ : { e \in Environs : "PYUTILS_ROOT" \in DOMAIN e },
    envvar : TaskVars,
    value : { PyStr("8"), PyStr(""), PyInt(8), None, PyBool(TRUE),
              PyList(<<>>), PyList(<<PyStr("2"), PyStr("4")>>),
              PyList(<<PyStr("2"), PyInt(4)>>) } ]

LibCalls ==
  UpdateDictCalls \cup MatchListCalls \cup UniqueListCalls
    \cup RenderTmplCalls \cup ConcatYamlCalls \cup EnviroSetCalls

InitLib ==
  /\ lib \in LibCalls
  /\ pc = "LIB"
  /\ exec_obj = BlankObj
  /\ built = BlankObj
  /\ environ = IF lib.fn = "enviro_set" THEN lib.environ
               ELSE [k \in {} |-> ""]
  /\ fs = {}
  /\ host = "unknown"
  /\ err = NoErr
  /\ stages = <<>>
  /\ spawned = 0
  /\ log = <<>>
  /\ cwd = OrigCwd
  /\ saved_cwd = ""
  /\ hnd = [stderr |-> "none", stdout |-> "none"]
  /\ files = [p \in {} |-> <<>>]
  /\ proc = NoProc
  /\ inspections = 0
  /\ thr = <<>>

\* The call returns ret (a raised exception is part of ret).
Returns(ret) ==
  /\ lib.state = "called"
  /\ lib' = [k \in DOMAIN lib \cup {"ret"} |->
               IF k = "ret" THEN ret
               ELSE IF k = "state" THEN "returned" ELSE lib[k]]
  /\ UNCHANGED <<pc, exec_obj, built, environ, fs, host, err, stages, spawned,
                 log, cwd, saved_cwd, hnd, files, proc, inspections, thr>>

update_dict_call ==
  /\ lib.fn = "update_dict"
  /\ Returns(update_dict(lib.default_dict, lib.base_dict, lib.update_none))

match_list_call ==
  /\ lib.fn = "match_list"
  /\ Returns(match_list(lib.in_list, lib.match_string, lib.exact))

unique_list_call ==
  /\ lib.fn = "unique_list"
  /\ Returns(unique_list(lib.in_list))

render_tmpl_call ==
  /\ lib.fn = "render_tmpl"
  /\ Returns(render_tmpl(lib.tmpl_obj, lib.tmpl_str_in, lib.fail_missing,
                         lib.f90_bool, lib.warn))

concat_yaml_call ==
  /\ lib.fn = "concat_yaml"
  /\ Returns(concat_yaml(lib.yaml_file_list, lib.yaml_file_out,
                         lib.fail_nonvalid, lib.ignore_missing, lib.disk))

\* enviro_set writes os.environ and returns None.
enviro_set_call ==
  /\ lib.fn = "enviro_set"
  /\ lib.state = "called"
  /\ LET r == enviro_set(environ, lib.envvar, lib.value)
     IN /\ environ' = r.environ
        /\ lib' = [k \in DOMAIN lib \cup {"ret"} |->
                     IF k = "ret" THEN [val |-> None, err |-> r.err]
                     ELSE IF k = "state" THEN "returned" ELSE lib[k]]
  /\ UNCHANGED <<pc, exec_obj, built, fs, host, err, stages, spawned, log,
                 cwd, saved_cwd, hnd, files, proc, inspections, thr>>

NextLib ==
  update_dict_call \/ match_list_call \/ unique_list_call
    \/ render_tmpl_call \/ concat_yaml_call \/ enviro_set_call

SpecLib == InitLib /\ [][NextLib]_vars

\* A call of fn has returned.
Returned(fn) == lib.fn = fn /\ lib.state = "returned"

\* ------------------------------------------------------------------------
\* Vocabulary of the properties.

StageOrder ==
  <<"BUILD", "SCHEMA_RESOLVE", "DEFAULTS_APPLY", "LAUNCHER_RESOLVE",
    "VALIDATE", "RUN">>

IsPrefix(s, t) == Len(s) <= Len(t) /\ s = SubSeq(t, 1, Len(s))

\* The stage has been entered and is not waiting for a query or an
\* inspection it started.
Executed(stage) ==
  /\ \E i \in 1..Len(stages) : stages[i] = stage
  /\ pc \notin {"LAUNCHER_WAIT", "VALIDATE_LOOKUP", "VALIDATE_INSPECT"}

FailedAt(stage) ==
  pc = "ABORTED" /\ Len(stages) > 0 /\ stages[Len(stages)] = stage

ConfigError == err.type = "ExecutableInterfaceError"

\* VALIDATE stopped in container resolution, before task-type resolution.
SifimgRaised ==
  /\ FailedAt("VALIDATE")
  /\ \/ err.type \in {"FileNotFoundError", "TypeError"}
     \/ ConfigError /\ Contains(err.msg, "Singularity container path")

\* Task-type resolution was called; it raised; it returned.
ExecTypeActed == Executed("VALIDATE") /\ ~SifimgRaised

ExecTypeRaised ==
  FailedAt("VALIDATE") /\ ~SifimgRaised /\ err.type # "SchemaInterfaceError"

ExecTypeReturned == ExecTypeActed /\ ~ExecTypeRaised

\* The positions of task_keys bound in the environment, and those bound to
\* something other than "0".
BoundIdx == { i \in 1..Len(built.task_keys) : built.task_keys[i] \in DOMAIN environ }

NonZeroIdx == { i \in BoundIdx : environ[built.task_keys[i]] # "0" }

MinOf(S) == CHOOSE i \in S : \A j \in S : i <= j

FirstBoundVal == environ[built.task_keys[MinOf(BoundIdx)]]

FirstNonZeroVal == environ[built.task_keys[MinOf(NonZeroIdx)]]

MultiOnly == Truthy(built.multi) /\ ~Truthy(built.serial)

\* The chunks a child wrote to one of its streams.
RECURSIVE StreamChunks(_, _)
StreamChunks(writes, stream) ==
  IF writes = <<>> THEN <<>>
  ELSE (IF Head(writes)[1] = stream THEN <<Head(writes)[2]>> ELSE <<>>)
       \o StreamChunks(Tail(writes), stream)

Recognized(sched) == str_lower(sched.v) \in {"mpi", "slurm"}

InRun ==
  pc \in {"RUN_REDIRECT", "RUN_CHDIR", "RUN_SPAWN", "RUN_WAIT", "RUN_CHECK",
          "DONE"}

\* ------------------------------------------------------------------------
\* C1: the stages of one invocation run in the order BUILD, SCHEMA_RESOLVE,
\* DEFAULTS_APPLY, LAUNCHER_RESOLVE, VALIDATE, RUN: the stages executed so
\* far are always an initial part of that order (none skipped, reordered or
\* repeated), a finished invocation has executed all of them, and at most
\* one child process is spawned, and only in RUN.
C1_StrictStageOrder ==
  /\ IsPrefix(stages, StageOrder)
  /\ spawned <= 1
  /\ spawned = 1 => stages = StageOrder
  /\ pc = "DONE" => stages = StageOrder /\ spawned = 1

C1_Witness == pc = "DONE" /\ stages = StageOrder /\ spawned = 1

\* C2: a failing stage ends the pipeline.  An exception is pending exactly
\* when the pipeline is aborted; nothing happens after an abort; the step
\* that aborts spawns nothing; a child is spawned only after all stages up
\* to VALIDATE returned; and the failures the code detects (schema path,
\* schema validation, unrecognized scheduler, missing container image)
\* stop the pipeline in the stage that detects them.
C2_AbortAtFailingStage ==
  /\ []((err # NoErr) <=> (pc = "ABORTED"))
  /\ [][pc # "ABORTED"]_vars
  /\ [][pc' = "ABORTED" => spawned' = spawned]_vars
  /\ [][spawned' > spawned => (err = NoErr /\ stages = StageOrder)]_vars
  /\ []((\E i \in 1..5 : FailedAt(StageOrder[i])) => spawned = 0)
  /\ []((Executed("SCHEMA_RESOLVE")
          /\ ("PYUTILS_ROOT" \notin DOMAIN environ \/ SchemaFile \notin fs))
        => (FailedAt("SCHEMA_RESOLVE") /\ ConfigError))
  /\ []((err.type = "SchemaInterfaceError")
        => (FailedAt("DEFAULTS_APPLY") \/ FailedAt("VALIDATE")))
  /\ []((Executed("LAUNCHER_RESOLVE") /\ built.launcher = None
          /\ built.scheduler # None /\ ~Recognized(built.scheduler))
        => (FailedAt("LAUNCHER_RESOLVE") /\ ConfigError))
  /\ []((Executed("VALIDATE") /\ built.img_path # None /\ ImgFile \notin fs)
        => (FailedAt("VALIDATE") /\ ConfigError))

C2_Witness ==
  /\ FailedAt("VALIDATE")
  /\ ConfigError
  /\ built.img_path # None /\ ImgFile \notin fs
  /\ spawned = 0

\* C3 (as claimed): the child's standard output goes to the handle opened on
\* the stdout file and its standard error to the handle opened on the stderr
\* file, so that after the child has exited each redirect file holds what
\* the child wrote to that stream; a child that wrote "ok" to stdout and
\* exited 0 leaves "ok" in the stdout file.
C3_StreamsToOwnFiles ==
  /\ proc.state # "none" =>
       proc.stdout_to = "stdout" /\ proc.stderr_to = "stderr"
  /\ proc.state = "exited" =>
       /\ files[exec_obj.stdout.v] = StreamChunks(proc.writes, "stdout")
       /\ files[exec_obj.stderr.v] = StreamChunks(proc.writes, "stderr")

\* C4: once the child has exited and __run has finished, an exception is
\* pending if and only if the exit code is not 0; it is an
\* ExecutableInterfaceError whose message contains the executable path, the
\* exit code and the stderr log path.
C4_RaiseIffNonZero ==
  (proc.state = "exited" /\ pc \in {"DONE", "ABORTED"}) =>
    /\ (err # NoErr) <=> (exec_obj.rc # PyInt(0))
    /\ (exec_obj.rc = PyInt(0)) => pc = "DONE"
    /\ (err # NoErr) =>
         /\ ConfigError
         /\ Contains(err.msg, exec_obj.exec_path.v)
         /\ Contains(err.msg, ToString(exec_obj.rc.v))
         /\ Contains(err.msg, exec_obj.stderr.v)

C4_Witness ==
  /\ pc = "ABORTED" /\ proc.state = "exited"
  /\ exec_obj.rc = PyInt(7)
  /\ ConfigError
  /\ Contains(err.msg, "7") /\ Contains(err.msg, "/work/run/stderr.log")

\* C5 (as claimed): with multi set (and serial not set) and some task_keys
\* entry bound to a value other than "0", task-type resolution returns with
\* ntasks equal to the value of the first entry bound to a value other than
\* "0", also when an earlier entry is bound to "0".
C5_FirstNonZeroEntry ==
  (ExecTypeActed /\ MultiOnly /\ NonZeroIdx # {}) =>
    (ExecTypeReturned /\ exec_obj.ntasks = PyStr(FirstNonZeroVal))

\* C5 (amended): with multi set, serial not set and the first bound
\* task_keys entry bound to a value other than "0", task-type resolution
\* returns with ntasks equal to the value of that first bound entry.
C5_FirstBoundEntry ==
  (ExecTypeActed /\ MultiOnly /\ BoundIdx # {} /\ FirstBoundVal # "0") =>
    (ExecTypeReturned /\ exec_obj.ntasks = PyStr(FirstBoundVal))

C5_Witness ==
  /\ ExecTypeReturned /\ MultiOnly
  /\ built.task_keys = <<"SLURM_NTASKS", "NTASKS">>
  /\ BoundIdx = {1, 2}
  /\ environ["SLURM_NTASKS"] = "2" /\ environ["NTASKS"] = "4"
  /\ exec_obj.ntasks = PyStr("2")

\* C6 (as claimed): with multi set, serial not set and no task_keys entry
\* bound, task-type resolution raises ExecutableInterfaceError and leaves
\* ntasks unset.
C6_UnboundKeysConfigError ==
  (ExecTypeActed /\ MultiOnly /\ BoundIdx = {}) =>
    (ExecTypeRaised /\ ConfigError /\ exec_obj.ntasks = None)

\* C7 (as claimed): with multi set, serial not set and the first bound
\* task_keys entry bound to "0", task-type resolution raises
\* ExecutableInterfaceError; after a resolution that returned with multi
\* set, ntasks is not zero.
C7_ZeroTasksRejected ==
  /\ (ExecTypeActed /\ MultiOnly /\ BoundIdx # {} /\ FirstBoundVal = "0") =>
       (ExecTypeRaised /\ ConfigError)
  /\ (ExecTypeReturned /\ Truthy(built.multi)) =>
       exec_obj.ntasks \notin {PyInt(0), PyStr("0")}

\* C8: with multi false and serial false or None, task-type resolution
\* returns, whatever task_keys and the environment hold, with serial = True
\* and ntasks = 1.
C8_SerialDefault ==
  (ExecTypeActed /\ ~Truthy(built.multi) /\ ~Truthy(built.serial)) =>
    /\ ExecTypeReturned
    /\ exec_obj.serial = PyBool(TRUE)
    /\ exec_obj.ntasks = PyInt(1)

C8_Witness ==
  /\ ExecTypeReturned
  /\ built.multi = PyBool(FALSE) /\ built.serial = None
  /\ BoundIdx # {} /\ FirstBoundVal = "0"
  /\ exec_obj.serial = PyBool(TRUE) /\ exec_obj.ntasks = PyInt(1)

\* C9 (as claimed): with scheduler and launcher both unset, launcher
\* resolution logs a warning, leaves launcher = None and raises nothing, and
\* command assembly raises nothing and yields nprocs_flag = None and
\* cmd = [exec_path].
C9_NoSchedulerRunsSerial ==
  (built.scheduler = None /\ built.launcher = None) =>
    /\ Executed("LAUNCHER_RESOLVE") =>
         /\ ~FailedAt("LAUNCHER_RESOLVE")
         /\ exec_obj.launcher = None
         /\ \E i \in 1..Len(log) : log[i] = <<"warn", NoSchedulerMsg>>
    /\ Executed("RUN") =>
         /\ ~(FailedAt("RUN") /\ err.type = "AttributeError")
         /\ InRun => (exec_obj.nprocs_flag = None
                      /\ exec_obj.cmd = <<exec_obj.exec_path.v>>)

\* C10 (as claimed): with launcher unset and a scheduler that is neither
\* mpi nor slurm, launcher resolution raises ExecutableInterfaceError and the
\* message contains the scheduler name exactly as supplied.
C10_MessageHasLiteralName ==
  (Executed("LAUNCHER_RESOLVE") /\ built.launcher = None
     /\ built.scheduler # None /\ ~Recognized(built.scheduler)) =>
    /\ FailedAt("LAUNCHER_RESOLVE")
    /\ ConfigError
    /\ Contains(err.msg, built.scheduler.v)

\* C10 (amended): with launcher unset and a scheduler that is, ignoring
\* case, neither mpi nor slurm, launcher resolution raises
\* ExecutableInterfaceError and the message contains the scheduler name
\* converted to upper case.
C10_MessageHasUpperName ==
  (Executed("LAUNCHER_RESOLVE") /\ built.launcher = None
     /\ built.scheduler # None /\ ~Recognized(built.scheduler)) =>
    /\ FailedAt("LAUNCHER_RESOLVE")
    /\ ConfigError
    /\ Contains(err.msg, str_upper(built.scheduler.v))

C10_Witness ==
  /\ FailedAt("LAUNCHER_RESOLVE")
  /\ built.launcher = None /\ built.scheduler = PyStr("bogus")
  /\ ConfigError
  /\ Contains(err.msg, "BOGUS") /\ ~Contains(err.msg, "bogus")

\* ------------------------------------------------------------------------
\* Vocabulary of the launch plan and of the runner.

\* The launcher was left unset by the builder and launcher resolution found
\* a path for it.
LauncherFound == built.launcher = None /\ exec_obj.launcher # None

SchedIs(name) ==
  built.scheduler # None /\ str_lower(built.scheduler.v) = name

\* The number of info messages logged whose text starts with prefix.
InfoCount(prefix) ==
  Cardinality({ i \in 1..Len(log) :
                  /\ log[i][1] = "info"
                  /\ Len(log[i][2]) >= Len(prefix)
                  /\ SubSeq(log[i][2], 1, Len(prefix)) = prefix })

\* The number of warnings logged whose text starts with prefix.
WarnCount(prefix) ==
  Cardinality({ i \in 1..Len(log) :
                  /\ log[i][1] = "warn"
                  /\ Len(log[i][2]) >= Len(prefix)
                  /\ SubSeq(log[i][2], 1, Len(prefix)) = prefix })

\* __redirect__ has applied its defaults.
RedirectActed ==
  \/ pc \in {"RUN_CHDIR", "RUN_SPAWN", "RUN_WAIT", "RUN_CHECK", "DONE"}
  \/ FailedAt("RUN") /\ err.type # "AttributeError"

\* __run has returned or raised.
RunLeft == pc = "DONE" \/ FailedAt("RUN")

\* ------------------------------------------------------------------------
\* C11: with scheduler "mpi", multi true and the launcher left unset, once
\* launcher resolution has found the mpirun path the launcher is that path,
\* nprocs_flag is "-np" and the assembled command is exactly
\* [mpirun_path, "-np", str(ntasks), exec_path]; with scheduler "slurm" the
\* same with the srun path and "-n".
C11_LauncherCommand ==
  InRun /\ Truthy(built.multi) /\ LauncherFound =>
    /\ SchedIs("mpi") =>
         /\ exec_obj.launcher = PyStr("/usr/bin/mpirun")
         /\ exec_obj.nprocs_flag = PyStr("-np")
         /\ exec_obj.cmd = <<"/usr/bin/mpirun", "-np", Format(exec_obj.ntasks),
                             exec_obj.exec_path.v>>
    /\ SchedIs("slurm") =>
         /\ exec_obj.launcher = PyStr("/usr/bin/srun")
         /\ exec_obj.nprocs_flag = PyStr("-n")
         /\ exec_obj.cmd = <<"/usr/bin/srun", "-n", Format(exec_obj.ntasks),
                             exec_obj.exec_path.v>>

C11_Witness ==
  /\ pc = "DONE" /\ Truthy(built.multi) /\ LauncherFound /\ SchedIs("mpi")
  /\ exec_obj.cmd = <<"/usr/bin/mpirun", "-np", "4", ExecFile>>

\* ------------------------------------------------------------------------
\* C12: with multi false and scheduler "mpi" or "slurm", nprocs_flag is
\* null and the assembled command is exactly [exec_path], also when a
\* launcher was resolved or supplied.
C12_SerialCommand ==
  InRun /\ ~Truthy(built.multi) /\ (SchedIs("mpi") \/ SchedIs("slurm")) =>
    /\ exec_obj.nprocs_flag = None
    /\ exec_obj.cmd = <<exec_obj.exec_path.v>>

C12_Witness ==
  /\ pc = "DONE" /\ ~Truthy(built.multi) /\ SchedIs("slurm")
  /\ exec_obj.launcher = PyStr("/usr/bin/srun")
  /\ exec_obj.cmd = <<ExecFile>>

\* ------------------------------------------------------------------------
\* C13: command assembly applied again to an object it has been applied to
\* (the other fields unchanged) raises nothing and leaves cmd and
\* nprocs_flag as they are: cmd is built anew, never extended.
C13_AssemblyIdempotent ==
  InRun => /\ __get_cmd__(exec_obj).err = NoErr
           /\ __get_cmd__(exec_obj).obj.cmd = exec_obj.cmd
           /\ __get_cmd__(exec_obj).obj.nprocs_flag = exec_obj.nprocs_flag

C13_Witness ==
  pc = "RUN_REDIRECT" /\ Len(exec_obj.cmd) = 4 /\ exec_obj.nprocs_flag # None

\* ------------------------------------------------------------------------
\* C14: once __run has returned or raised, neither redirect file object is
\* open: after normal completion, after a non-zero exit code, and when the
\* spawn or the change of directory raised.
C14_HandlesClosed ==
  /\ RunLeft => hnd.stderr # "open" /\ hnd.stdout # "open"
  /\ pc \in {"RUN_CHECK", "DONE"} \/ (FailedAt("RUN") /\ saved_cwd # "") =>
       hnd = [stderr |-> "closed", stdout |-> "closed"]

C14_Witness ==
  /\ FailedAt("RUN") /\ err.type = "FileNotFoundError" /\ saved_cwd # ""
  /\ spawned = 0
  /\ hnd = [stderr |-> "closed", stdout |-> "closed"]

\* ------------------------------------------------------------------------
\* C15: the working directory is run_path only from the change of directory
\* to the end of the wait, and once __run has returned or raised (the spawn
\* failing and the child exiting non-zero included) it is the directory in
\* effect before __run was called.
C15_CwdRestored ==
  /\ cwd = IF pc \in {"RUN_SPAWN", "RUN_WAIT"}
           THEN exec_obj.run_path.v ELSE OrigCwd
  /\ RunLeft => cwd = OrigCwd

C15_Witness ==
  /\ FailedAt("RUN") /\ ConfigError /\ spawned = 1 /\ saved_cwd = OrigCwd
  /\ cwd = OrigCwd

\* ------------------------------------------------------------------------
\* C16: two invocations running concurrently in one process with different
\* run_path values are unsafe: from the state in which both are about to
\* enter the chdir block there is an interleaving, which nothing prevents
\* (every one of its steps is enabled), in which a child is started while
\* the process is not in its invocation's run_path and the directory the
\* process is left in is not the original one.  The interleaving is:
\* 1 enters, 2 enters, 1 spawns (its child starts in the run_path of 2),
\* 1 leaves, 2 spawns, 2 leaves (the process stays in the run_path of 1).
ThreadLeft(t) == thr[t].pc \in {"RETURNED", "RAISED"}

BothAtChdir ==
  /\ \A t \in Threads : thr[t].pc = "RUN_CHDIR"
  /\ cwd = OrigCwd

C16_Leave2 ==
  ENABLED (/\ conc_wait(2)
           /\ \A t \in Threads : ThreadLeft(t)'
           /\ cwd' # OrigCwd)

C16_Spawn2 == ENABLED (conc_spawn(2) /\ thr'[2].pc = "RUN_WAIT" /\ C16_Leave2')

C16_Leave1 == ENABLED (conc_wait(1) /\ C16_Spawn2')

C16_Spawn1 ==
  ENABLED (/\ conc_spawn(1)
           /\ thr'[1].pc = "RUN_WAIT"
           /\ thr'[1].child_cwd # thr'[1].run_path
           /\ C16_Leave1')

C16_Enter2 == ENABLED (conc_chdir_enter(2) /\ C16_Spawn1')

C16_Enter1 == ENABLED (conc_chdir_enter(1) /\ C16_Enter2')

C16_SharedCwdUnsafe == BothAtChdir => C16_Enter1

C16_Witness ==
  /\ \A t \in Threads : thr[t].pc = "RETURNED"
  /\ thr[1].child_cwd = RunDirs[2]
  /\ thr[2].child_cwd = OrigCwd
  /\ cwd = RunDirs[1]

\* ------------------------------------------------------------------------
\* C17: after __redirect__ has applied its defaults, a redirect path the
\* builder left unset is run_path/stderr.log (stderr) or run_path/stdout.log
\* (stdout) and exactly one warning was logged for it; a path the builder
\* supplied is unchanged and no warning was logged for it.
C17_RedirectDefaults ==
  RedirectActed =>
    /\ exec_obj.stderr = IF built.stderr = None
                         THEN PyStr(path_join(exec_obj.run_path.v, "stderr.log"))
                         ELSE built.stderr
    /\ exec_obj.stdout = IF built.stdout = None
                         THEN PyStr(path_join(exec_obj.run_path.v, "stdout.log"))
                         ELSE built.stdout
    /\ WarnCount("Setting stderr path to ")
         = IF built.stderr = None THEN 1 ELSE 0
    /\ WarnCount("Setting stdout path to ")
         = IF built.stdout = None THEN 1 ELSE 0

C17_Witness ==
  /\ pc = "DONE" /\ built.stderr = None /\ built.stdout # None
  /\ exec_obj.stderr = PyStr("/work/run/stderr.log")
  /\ exec_obj.stdout = built.stdout
  /\ WarnCount("Setting ") = 1

\* ------------------------------------------------------------------------
\* C18: container resolution runs only when img_path is set (otherwise the
\* container flag stays unset and no inspection is run); when img_path is
\* set but the file does not exist, VALIDATE fails with
\* ExecutableInterfaceError, the container flag is not set, and neither an
\* inspection subprocess nor an application process is started.
C18_MissingImageAborts ==
  /\ built.img_path = None => exec_obj.container = None /\ inspections = 0
  /\ Executed("VALIDATE") /\ built.img_path # None
       /\ ~fileexist(fs, built.img_path.v) =>
         /\ FailedAt("VALIDATE") /\ ConfigError
         /\ Contains(err.msg, "Singularity container path")
         /\ exec_obj.container = None
         /\ inspections = 0
         /\ spawned = 0

C18_Witness ==
  /\ FailedAt("VALIDATE") /\ ConfigError
  /\ built.img_path = PyStr(ImgFile) /\ ImgFile \notin fs
  /\ exec_obj.container = None /\ inspections = 0

\* ------------------------------------------------------------------------
\* C19: for an img_path that exists on disk, container resolution never
\* fails the pipeline: once VALIDATE has executed, container resolution has
\* raised nothing and the container flag is set, to true exactly when the
\* inspection tool was located and its inspection succeeded, and to false
\* when the inspection failed or the tool could not be located.  Stated for
\* the hosts on which the lookup program itself could be started.
C19_ContainerNeverFails ==
  Executed("VALIDATE") /\ built.img_path # None
    /\ fileexist(fs, built.img_path.v) /\ host = "present" =>
      /\ ~SifimgRaised
      /\ exec_obj.container \in {PyBool(TRUE), PyBool(FALSE)}
      /\ exec_obj.container = PyBool(TRUE) <=>
           /\ inspections = 1
           /\ InfoCount("Singularity application check yielded") = 0

\* ------------------------------------------------------------------------
\* C20: once SCHEMA_RESOLVE has executed, if PYUTILS_ROOT is absent or the
\* file <PYUTILS_ROOT>/execute/schema/executable.schema.yaml does not
\* exist, the stage has failed with ExecutableInterfaceError and schema_path
\* is not attached; otherwise the stage has not failed and schema_path is
\* that path.
C20_SchemaResolve ==
  Executed("SCHEMA_RESOLVE") =>
    IF enviro_get(environ, "PYUTILS_ROOT") = None
         \/ ~fileexist(fs, path_join(environ["PYUTILS_ROOT"], SchemaRelPath))
    THEN /\ FailedAt("SCHEMA_RESOLVE") /\ ConfigError
         /\ exec_obj.schema_path = None
    ELSE /\ ~FailedAt("SCHEMA_RESOLVE")
         /\ exec_obj.schema_path
              = PyStr(path_join(environ["PYUTILS_ROOT"], SchemaRelPath))

C20_Witness ==
  /\ FailedAt("SCHEMA_RESOLVE") /\ ConfigError
  /\ "PYUTILS_ROOT" \in DOMAIN environ /\ SchemaFile \notin fs
  /\ exec_obj.schema_path = None

\* ------------------------------------------------------------------------
\* C21: update_dict returns a dictionary in which every key of base_dict
\* has base_dict's value and every key of default_dict absent from
\* base_dict is present with default_dict's value, for update_none false
\* and, when the default values concerned are not None, for update_none
\* true as well.
C21_UpdateDictMerges ==
  Returned("update_dict")
    /\ (lib.update_none =>
          \A k \in DOMAIN lib.default_dict : lib.default_dict[k] # None) =>
      /\ \A k \in DOMAIN lib.base_dict :
           k \in DOMAIN lib.ret /\ lib.ret[k] = lib.base_dict[k]
      /\ \A k \in DOMAIN lib.default_dict \ DOMAIN lib.base_dict :
           k \in DOMAIN lib.ret /\ lib.ret[k] = lib.default_dict[k]

\* ------------------------------------------------------------------------
\* C22: match_list with exact = True returns (True, s) only for an element
\* s of in_list that equals match_string ignoring case, and returns
\* (False, None) when no element of in_list equals match_string ignoring
\* case, whatever the case of the elements.
EqualIgnoringCase(a, b) == str_lower(a) = str_lower(b)

C22_ExactMatchOnly ==
  Returned("match_list") /\ lib.exact =>
    /\ lib.ret.match_chk =>
         \E i \in 1..Len(lib.in_list) :
            /\ lib.ret.match_str = PyStr(lib.in_list[i])
            /\ EqualIgnoringCase(lib.in_list[i], lib.match_string)
    /\ (\A i \in 1..Len(lib.in_list) :
           ~EqualIgnoringCase(lib.in_list[i], lib.match_string)) =>
         lib.ret = [match_chk |-> FALSE, match_str |-> None]

\* ------------------------------------------------------------------------
\* C23: no value occurs twice in the list unique_list returns.
C23_NoDuplicates ==
  Returned("unique_list") =>
    \A i, j \in 1..Len(lib.ret) : lib.ret[i] = lib.ret[j] => i = j

\* ------------------------------------------------------------------------
\* C24: render_tmpl raises TemplateInterfaceError whenever at least one
\* template string is left unrendered and fail_missing is True, whatever
\* warn is; with fail_missing False it raises nothing and returns the
\* rendered string.
C24_FailMissingRaises ==
  Returned("render_tmpl") =>
    /\ lib.fail_missing /\ Len(lib.ret.tmpl_str_list) > 0 =>
         lib.ret.err.type = "TemplateInterfaceError"
    /\ ~lib.fail_missing =>
         /\ lib.ret.err = NoErr
         /\ lib.ret.out
              = PyStr(render_attrs(lib.tmpl_str_in, lib.tmpl_obj, lib.f90_bool))

\* ------------------------------------------------------------------------
\* C25: when a file of yaml_file_list does not exist and ignore_missing is
\* False, concat_yaml raises YAMLInterfaceError and the output file is not
\* written (the disk is as before the call); when ignore_missing is True
\* nothing is raised, one warning is logged for each missing entry of the
\* list, and the output file is written with what the existing files of
\* the list give.
MissingEntries ==
  { i \in 1..Len(lib.yaml_file_list) :
      lib.yaml_file_list[i] \notin DOMAIN lib.disk }

ExistingEntries ==
  SelectSeq(lib.yaml_file_list, LAMBDA f : f \in DOMAIN lib.disk)

C25_MissingYamlFile ==
  Returned("concat_yaml") =>
    /\ MissingEntries # {} /\ ~lib.ignore_missing =>
         /\ lib.ret.err.type = "YAMLInterfaceError"
         /\ lib.ret.disk = lib.disk
    /\ lib.ignore_missing =>
         /\ lib.ret.err = NoErr
         /\ Len(lib.ret.warn) = Cardinality(MissingEntries)
         /\ \A i \in MissingEntries :
              \E j \in 1..Len(lib.ret.warn) :
                 lib.ret.warn[j] = MissingFileMsg(lib.yaml_file_list[i])
         /\ lib.yaml_file_out \in DOMAIN lib.ret.disk
         /\ lib.ret.disk[lib.yaml_file_out]
              = PyDict(concat_loop(ExistingEntries, lib.disk, TRUE, FALSE,
                                   <<>>, <<>>).dict)

C25_Witness ==
  /\ Returned("concat_yaml") /\ lib.ignore_missing
  /\ lib.yaml_file_list = <<"/y/a.yaml", "/y/c.yaml">>
  /\ DOMAIN lib.disk = {"/y/c.yaml", YamlOut}
  /\ Len(lib.ret.warn) = 1
  /\ lib.ret.disk[YamlOut] = PyDict([m |-> PyDict([p |-> PyInt(2)])])

\* ------------------------------------------------------------------------
\* C26 (as claimed): with serial true on entry, task-type resolution
\* returns with ntasks = 1, whatever multi, task_keys and the environment
\* hold.
C26_SerialAlwaysOne ==
  (ExecTypeActed /\ Truthy(built.serial)) =>
    (ExecTypeReturned /\ exec_obj.ntasks = PyInt(1))

\* ------------------------------------------------------------------------
\* C27: once the child has been waited for, rc is the child's exit code,
\* zero or not: a run that finished has rc = 0, and a run that stopped on
\* the exit code stopped with ExecutableInterfaceError and carries that
\* non-zero code in rc.
C27_RcIsExitCode ==
  proc.state = "exited" =>
    /\ exec_obj.rc = proc.returncode
    /\ pc = "DONE" => exec_obj.rc = PyInt(0)
    /\ FailedAt("RUN") => (ConfigError /\ exec_obj.rc # PyInt(0))

C27_Witness ==
  /\ FailedAt("RUN") /\ ConfigError
  /\ proc.state = "exited" /\ proc.returncode = PyInt(1)
  /\ exec_obj.rc = PyInt(1)

\* ------------------------------------------------------------------------
\* C28: with a launcher supplied by the builder, launcher resolution
\* changes no field of the object, raises nothing and logs nothing,
\* whatever the scheduler is (recognized, unrecognized or None).
C28_SuppliedLauncherKept ==
  /\ [](Executed("LAUNCHER_RESOLVE") /\ built.launcher # None =>
          ~FailedAt("LAUNCHER_RESOLVE") /\ exec_obj.launcher = built.launcher)
  /\ [][pc = "LAUNCHER_RESOLVE" /\ exec_obj.launcher # None =>
          /\ exec_obj' = exec_obj
          /\ err' = err
          /\ log' = log
          /\ pc' = "VALIDATE"]_vars

C28_Witness ==
  /\ pc = "VALIDATE" /\ err = NoErr
  /\ built.launcher # None /\ exec_obj.launcher = built.launcher
  /\ built.scheduler # None /\ ~Recognized(built.scheduler)

\* ------------------------------------------------------------------------
\* C29: command assembly changes nprocs_flag and cmd and no other field;
\* applied to an object whose nprocs_flag was set by hand it yields the
\* flag and the command that scheduler and multi determine.
OverrideFlags == {None, PyStr("-np"), PyStr("-n"), PyStr("--ntasks")}

C29_AssemblyFrame ==
  /\ [](InRun => \A flag \in OverrideFlags :
          LET r == __get_cmd__([exec_obj EXCEPT !.nprocs_flag = flag])
          IN r.err = NoErr /\ r.obj = exec_obj)
  /\ [][pc = "RUN" =>
          \A f \in DOMAIN exec_obj \ {"nprocs_flag", "cmd"} :
            exec_obj'[f] = exec_obj[f]]_vars

C29_Witness ==
  /\ pc = "RUN_REDIRECT" /\ SchedIs("slurm") /\ Truthy(built.multi)
  /\ exec_obj.nprocs_flag = PyStr("-n")
  /\ exec_obj.launcher = built.launcher /\ exec_obj.ntasks # None
  /\ __get_cmd__([exec_obj EXCEPT !.nprocs_flag = PyStr("-np")]).obj.cmd[2]
       = "-n"

\* ------------------------------------------------------------------------
\* C30 (as claimed): a command of the launcher form starts with a resolved
\* launcher path: no child is started from a command whose first word is
\* the text "None" of a launcher that was not found.  Stated for runs
\* with a non-zero task count that have come to the start of the child.
C30_LauncherFormResolved ==
  (pc \in {"RUN_SPAWN", "RUN_WAIT", "RUN_CHECK", "DONE"}
   /\ Len(exec_obj.cmd) = 4 /\ exec_obj.cmd[3] # "0") =>
    (exec_obj.launcher # None /\ exec_obj.cmd[1] # "None")

====
